---- MODULE Spec2Model ----
(***************************************************************************)
(* The automation command bridge of XAIApp:                                *)
(*   AutomationModule  (React Native facade: tap, swipe, pasteText, ...)   *)
(*   AutomationService (accessibility service: gesture dispatch, paste)    *)
(* Execution contexts: facade calls run on the caller's context; the       *)
(* service lifecycle signals, the posted runnables and the gesture result  *)
(* callbacks all run on the main looper, one at a time.                    *)
(***************************************************************************)
EXTENDS Integers, Sequences, FiniteSets, TLC

\* ------------------------------------------------------------------ bounds
MaxCmds == 2
MaxServices == 2
MaxJsCalls == 2
MaxPresses == 2
MaxSpeechCalls == 4
MaxWhisperCalls == 4

\* ------------------------------------------------------------------ values
Null == "null"
NoService == 0                 \* instance = null
NotRun == -1                   \* the posted work has not run
NoGesture == [strokes |-> << >>]
NoRequest == [op |-> "none", args |-> << >>]
Services == 1..MaxServices
Texts == {"hello"}
InputNode == "n1"              \* the node that may hold input focus
A11yNode == "n2"               \* the node that may hold accessibility focus
InitialClip == "prior"
Packages == {"com.example.app"}

\* ------------------------------------------------------- pure conversions
\* Kotlin Double.toLong(): truncation toward zero. A duration (Double) is
\* given in halves of a millisecond, so that there is something to truncate.
toLong(h) == IF h >= 0 THEN h \div 2 ELSE -((-h) \div 2)

RECURSIVE Pow2Below(_, _)
\* the largest power of two p*2^k (k >= 0) that is <= n, for n >= p >= 1
Pow2Below(n, p) == IF 2 * p > n THEN p ELSE Pow2Below(n, 2 * p)

\* Kotlin Double.toFloat() on an integral value: round to a 24-bit
\* significand, ties to even.
toFloat(x) ==
  LET a == IF x < 0 THEN -x ELSE x
      top == Pow2Below(IF a = 0 THEN 1 ELSE a, 1)
      ulp == IF top < 16777216 THEN 1 ELSE top \div 8388608
      q == a \div ulp
      r == a % ulp
      up == (2 * r > ulp) \/ (2 * r = ulp /\ q % 2 = 1)
      m == (IF up THEN q + 1 ELSE q) * ulp
  IN  IF x < 0 THEN -m ELSE m

\* ---------------------------------------------------------------- gestures
\* (mutant) the duration is passed on as given.
buildGesture_noCoerce(path, durationMs) ==
  [strokes |-> << [path |-> path, startTime |-> 0, duration |-> durationMs] >>]

\* durationMs.coerceAtLeast(1L); one stroke, start time 0.
buildGesture(path, durationMs) ==
  LET safeDuration == IF durationMs < 1 THEN 1 ELSE durationMs
  IN  [strokes |-> << [path |-> path, startTime |-> 0, duration |-> safeDuration] >>]

gestureForTap(x, y, durationMs) ==
  buildGesture(<< <<"moveTo", x, y>> >>, durationMs)

\* (mutant) the line is drawn relative to the start point (rLineTo).
gestureForSwipe_relative(startX, startY, endX, endY, durationMs) ==
  buildGesture(<< <<"moveTo", startX, startY>>, <<"lineTo", startX + endX, startY + endY>> >>,
               durationMs)

gestureForSwipe(startX, startY, endX, endY, durationMs) ==
  buildGesture(<< <<"moveTo", startX, startY>>, <<"lineTo", endX, endY>> >>, durationMs)

\* (mutant) x and y change places on the way down.
tapGesture_swapsXY(a) == gestureForTap(toFloat(a[2]), toFloat(a[1]), toLong(a[3]))

\* AutomationModule.tap -> AutomationService.tap -> gestureForTap: the
\* gesture built for the call tap(a[1], a[2], a[3]).
tapGesture(a) == gestureForTap(toFloat(a[1]), toFloat(a[2]), toLong(a[3]))

\* the gesture built for the call swipe(a[1], a[2], a[3], a[4], a[5])
swipeGesture(a) ==
  gestureForSwipe(toFloat(a[1]), toFloat(a[2]), toFloat(a[3]), toFloat(a[4]), toLong(a[5]))

\* The argument lists the facade is driven with: x, y, ..., duration in
\* halves of a millisecond. 16777217 = 2^24 + 1 is a Double but not a Float.
TapArgs == { <<16777217, 200, 5>> }
SwipeArgs == { <<100, 200, 200, 100, -3>> }

\* ------------------------------------------------------------------- state
VARIABLES
  instance,    \* AutomationService.Companion.instance: a service or NoService
  svc,         \* each service object's lifecycle, driven by the OS
  looper,      \* runnables posted to mainHandler and not yet run (command ids)
  cmds,        \* the facade calls made so far, in call order
  clipboard,   \* the system clipboard's primary clip
  req,         \* gesture builder alone: the request it was given
  built        \* gesture builder alone: the gesture it built

\* The JavaScript facade (src/automation.ts)
VARIABLES
  platform,    \* Platform.OS
  jsCalls      \* the facade functions called so far, with what each did

\* The automation control screen (AppContent)
VARIABLES
  screen,      \* which page AppContent shows
  packageField, \* the target package field
  tapX,        \* the tap X field
  swipeStartX, \* the swipe start X field
  busyAction,  \* the handler whose command is awaited, or Null
  handlers     \* the button handlers started so far, in press order

\* SpeechRecognitionModule
VARIABLES
  speechRecognizer, \* the recognizer the module holds (an index of recognizers), or NoRecognizer
  currentPromise,   \* the startListening promise the module holds (an index of speechCalls), or NoPromise
  isListening,
  uiQueue,          \* runnables given to UiThreadUtil.runOnUiThread and not yet run (call ids)
  speechCalls,      \* the module methods called so far, each with its promise
  recognizers       \* every SpeechRecognizer created so far, with its session's progress

\* WhisperModule
VARIABLES
  isLibraryLoaded,  \* whether System.loadLibrary("whisper_bridge") succeeded
  audioRecord,      \* the AudioRecord the module holds (an index of recorders), or NoRecorder
  isRecording,
  recordingPromise, \* the startRecording promise the module holds (an index of whisperCalls), or NoPromise
  whisperCalls,     \* the module methods called so far, each with its promise
  recordingThreads, \* every recording thread started so far
  recorders,        \* every AudioRecord created so far
  whisperUi         \* runnables the recording threads gave to the UI thread, not yet run

bridgeVars == <<instance, svc, looper, cmds, clipboard>>
gestureVars == <<req, built>>
jsVars == <<platform, jsCalls>>
\* everything outside the bridge and the gesture builder
screenVars == <<screen, packageField, tapX, swipeStartX, busyAction, handlers>>
speechVars == <<speechRecognizer, currentPromise, isListening, uiQueue, speechCalls, recognizers>>
whisperVars == <<isLibraryLoaded, audioRecord, isRecording, recordingPromise, whisperCalls,
                 recordingThreads, recorders, whisperUi>>
restVars == <<jsVars, screenVars, speechVars, whisperVars>>

vars == <<bridgeVars, gestureVars, restVars>>

\* What the foreground application shows when a focus lookup runs: whether
\* there is an active window, and the nodes holding input focus and
\* accessibility focus in it (Null: none). It changes at the application's
\* will, so every lookup draws it afresh.
NoWindow == [root |-> FALSE, inputFocus |-> Null, a11yFocus |-> Null]
Windows ==
  {NoWindow} \cup [root : {TRUE}, inputFocus : {InputNode, Null}, a11yFocus : {A11yNode, Null}]

Ids == 1..Len(cmds)

\* One facade call. `calls` is every value the completion callback was invoked
\* with, in order; `life` is the command's lifecycle as the code stepped it.
NewCmd(op, text, gesture) ==
  [ op |-> op, text |-> text, gesture |-> gesture,
    args |-> << >>,          \* the numbers tap/swipe was called with
    service |-> NoService,   \* the service withService captured
    pc |-> "called",         \* posted -> ran ; or returned (no service)
    started |-> "unset",     \* AutomationService.tap/swipe/pasteText returned: true|false
    promise |-> "pending",   \* the caller's React Native promise
    rejects |-> 0,           \* promise.reject invocations
    resolves |-> 0,          \* promise.resolve invocations
    calls |-> << >>,
    accepted |-> "unset",    \* dispatchGesture returned: true|false
    registered |-> FALSE,    \* the capability holds the GestureResultCallback
    report |-> "none",       \* what the capability reported: none|completed|cancelled
    ranOn |-> NotRun,        \* the service the posted work operated against
    dispatched |-> << >>,    \* the gestures handed to dispatchGesture
    activity |-> "none",     \* the activity startActivity was asked for
    launchIntent |-> "unset",\* getLaunchIntentForPackage returned: null|found
    error |-> "none",
    window |-> NoWindow,     \* what the focus lookup saw
    target |-> "unset", setRes |-> "none", pasteRes |-> "none", clipWrites |-> 0,
    setCalls |-> << >>,      \* performAction(ACTION_SET_TEXT, args) calls: node and text
    clipCalls |-> << >>,     \* setPrimaryClip calls: the text of the clip
    pasteCalls |-> << >>,    \* performAction(ACTION_PASTE) calls: the node
    focusMoved |-> FALSE,    \* a lookup made when ACTION_PASTE is performed would find another node
    life |-> << "Issued" >> ]

NoRecognizer == 0
NoPromise == 0

\* SpeechRecognitionModule's field initialisers
speechIdle ==
  /\ speechRecognizer = NoRecognizer
  /\ currentPromise = NoPromise
  /\ isListening = FALSE
  /\ uiQueue = << >>
  /\ speechCalls = << >>
  /\ recognizers = << >>

NoRecorder == 0
NoThread == 0

\* WhisperModule's field initialisers, with the library loaded
whisperIdle ==
  /\ isLibraryLoaded = TRUE
  /\ audioRecord = NoRecorder
  /\ isRecording = FALSE
  /\ recordingPromise = NoPromise
  /\ whisperCalls = << >>
  /\ recordingThreads = << >>
  /\ recorders = << >>
  /\ whisperUi = << >>

\* AppContent's useState initial values
screenIdle ==
  /\ screen = "home"
  /\ packageField = "com.example.app"
  /\ tapX = "540"
  /\ swipeStartX = "540"
  /\ busyAction = Null
  /\ handlers = << >>

Init ==
  /\ instance = NoService
  /\ svc = [s \in Services |-> "none"]
  /\ looper = << >>
  /\ cmds = << >>
  /\ clipboard = InitialClip
  /\ req = NoRequest
  /\ built = NoGesture
  /\ platform = "android"
  /\ jsCalls = << >>
  /\ screenIdle
  /\ speechIdle
  /\ whisperIdle

\* ----------------------------------------------------------------- promise
\* com.facebook.react.bridge.Promise: the first resolve or reject settles it,
\* later ones are dropped.
Settle(p, v) == IF p = "pending" THEN v ELSE p

\* The completion callback the facade hands down: { success -> promise.resolve(success) }
callback(cmd, success) ==
  [cmd EXCEPT !.calls = Append(@, success), !.resolves = @ + 1,
              !.promise = Settle(@, IF success THEN "true" ELSE "false")]

\* if (!started) promise.reject("SERVICE_NOT_RUNNING", ...)
rejectNotRunning(cmd) ==
  [cmd EXCEPT !.started = "false", !.pc = "returned", !.rejects = @ + 1,
              !.promise = Settle(@, "SERVICE_NOT_RUNNING")]

\* ------------------------------------------------------------ the handle
isRunning == instance # NoService

onServiceConnected(s) ==
  /\ svc[s] = "none"
  /\ \A t \in Services : (t < s => svc[t] = "destroyed") /\ (t > s => svc[t] = "none")
  /\ svc' = [svc EXCEPT ![s] = "connected"]
  /\ instance' = s
  /\ UNCHANGED <<looper, cmds, clipboard, req, built, restVars>>

\* (mutant) onDestroy leaves the companion's reference in place.
onDestroy_keepsInstance(s) ==
  /\ svc[s] = "connected"
  /\ svc' = [svc EXCEPT ![s] = "destroyed"]
  /\ UNCHANGED <<instance, looper, cmds, clipboard, req, built, restVars>>

onDestroy(s) ==
  /\ svc[s] = "connected"
  /\ svc' = [svc EXCEPT ![s] = "destroyed"]
  /\ instance' = NoService
  /\ UNCHANGED <<looper, cmds, clipboard, req, built, restVars>>

\* ------------------------------------------------- facade, caller's context
\* (mutant) the facade resolves the promise as soon as the work is posted.
posted_resolvesAtOnce(cmd, service) ==
  [cmd EXCEPT !.service = service, !.pc = "posted", !.started = "true",
              !.resolves = @ + 1, !.promise = Settle(@, "true")]

\* action(service): mainHandler.post { ... }; withService then returns true.
posted(cmd, service) ==
  [cmd EXCEPT !.service = service, !.pc = "posted", !.started = "true"]

\* (mutant) withService without the null check: the call goes on with
\* whatever the handle holds.
withService_noNullCheck(op, args, text, gesture) ==
  /\ Len(cmds) < MaxCmds
  /\ cmds' = Append(cmds, posted([NewCmd(op, text, gesture) EXCEPT !.args = args], instance))
  /\ looper' = Append(looper, Len(cmds) + 1)
  /\ UNCHANGED <<instance, svc, clipboard, req, built, restVars>>

\* (mutant) the first service ever connected is kept and used for good.
withService_cachedHandle(op, args, text, gesture) ==
  /\ Len(cmds) < MaxCmds
  /\ cmds' = Append(cmds,
       IF instance = NoService
       THEN rejectNotRunning([NewCmd(op, text, NoGesture) EXCEPT !.args = args])
       ELSE posted([NewCmd(op, text, gesture) EXCEPT !.args = args],
                   CHOOSE s \in Services :
                     svc[s] # "none" /\ \A t \in Services : t < s => svc[t] = "none"))
  /\ looper' = IF instance = NoService THEN looper ELSE Append(looper, Len(cmds) + 1)
  /\ UNCHANGED <<instance, svc, clipboard, req, built, restVars>>

\* (mutant) the work is done in the facade call, on the caller's context,
\* instead of being posted to mainHandler.
withService_inline(op, args, text, gesture) ==
  /\ Len(cmds) < MaxCmds
  /\ cmds' = Append(cmds,
       IF instance = NoService
       THEN rejectNotRunning([NewCmd(op, text, NoGesture) EXCEPT !.args = args])
       ELSE [posted([NewCmd(op, text, gesture) EXCEPT !.args = args], instance) EXCEPT
               !.pc = "ran", !.ranOn = instance, !.accepted = "true", !.registered = TRUE,
               !.dispatched = << gesture >>, !.life = Append(@, "Submitted")])
  /\ UNCHANGED <<instance, svc, looper, clipboard, req, built, restVars>>

\* withService: val service = instance ?: return false; action(service);
\* return true. The handle is read once. With no service the facade rejects
\* the promise; otherwise action(service) posts the work to mainHandler, to
\* run against the captured service, and the call returns true. The call
\* touches shared state only in that one read and in the post, so it is one
\* step.
withService(op, args, text, gesture) ==
  /\ Len(cmds) < MaxCmds
  /\ cmds' = Append(cmds,
       IF instance = NoService
       THEN rejectNotRunning([NewCmd(op, text, NoGesture) EXCEPT !.args = args])
       ELSE posted([NewCmd(op, text, gesture) EXCEPT !.args = args], instance))
  /\ looper' = IF instance = NoService THEN looper ELSE Append(looper, Len(cmds) + 1)
  /\ UNCHANGED <<instance, svc, clipboard, req, built, restVars>>

tap == \E a \in TapArgs : withService("tap", a, Null, tapGesture(a))

swipe == \E a \in SwipeArgs : withService("swipe", a, Null, swipeGesture(a))

pasteText == \E t \in Texts : withService("paste", << >>, t, NoGesture)

\* promise.resolve(AutomationService.isRunning()): answered on the caller's
\* context, from one read of the handle.
isAccessibilityServiceRunning ==
  /\ Len(cmds) < MaxCmds
  /\ cmds' = Append(cmds,
       [NewCmd("isRunning", Null, NoGesture) EXCEPT
          !.pc = "returned", !.resolves = 1,
          !.promise = IF isRunning THEN "true" ELSE "false"])
  /\ UNCHANGED <<instance, svc, looper, clipboard, req, built, restVars>>

\* (mutant) a settings screen that cannot be opened gives resolve(false).
openAccessibilitySettings_resolvesFalse ==
  /\ Len(cmds) < MaxCmds
  /\ \E opened \in BOOLEAN :
       cmds' = Append(cmds,
         [NewCmd("openSettings", Null, NoGesture) EXCEPT
            !.pc = "returned",
            !.activity = IF opened THEN "settings" ELSE "none",
            !.resolves = 1,
            !.promise = IF opened THEN "true" ELSE "false"])
  /\ UNCHANGED <<instance, svc, looper, clipboard, req, built, restVars>>

\* startActivity(ACTION_ACCESSIBILITY_SETTINGS) and resolve(true), or the
\* exception it threw and reject("OPEN_SETTINGS_FAILED").
openAccessibilitySettings ==
  /\ Len(cmds) < MaxCmds
  /\ \E opened \in BOOLEAN :
       cmds' = Append(cmds,
         [NewCmd("openSettings", Null, NoGesture) EXCEPT
            !.pc = "returned",
            !.activity = IF opened THEN "settings" ELSE "none",
            !.rejects = IF opened THEN 0 ELSE 1,
            !.resolves = IF opened THEN 1 ELSE 0,
            !.promise = IF opened THEN "true" ELSE "OPEN_SETTINGS_FAILED"])
  /\ UNCHANGED <<instance, svc, looper, clipboard, req, built, restVars>>

\* (mutant) openApp answers false while the accessibility service is off.
openApp_needsService ==
  /\ Len(cmds) < MaxCmds
  /\ \E packageName \in Packages, launch \in {"noIntent", "started", "threw"} :
       cmds' = Append(cmds,
         [NewCmd("openApp", packageName, NoGesture) EXCEPT
            !.pc = "returned",
            !.activity = IF launch = "started" /\ isRunning THEN "launch" ELSE "none",
            !.launchIntent = IF launch = "noIntent" THEN "null" ELSE "found",
            !.rejects = IF launch = "threw" /\ isRunning THEN 1 ELSE 0,
            !.resolves = IF launch = "threw" /\ isRunning THEN 0 ELSE 1,
            !.promise = CASE ~isRunning \/ launch = "noIntent" -> "false"
                          [] launch = "started" -> "true"
                          [] OTHER -> "OPEN_APP_FAILED"])
  /\ UNCHANGED <<instance, svc, looper, clipboard, req, built, restVars>>

\* getLaunchIntentForPackage(packageName): null gives resolve(false); else
\* startActivity(launchIntent) and resolve(true); an exception on the way
\* gives reject("OPEN_APP_FAILED").
openApp ==
  /\ Len(cmds) < MaxCmds
  /\ \E packageName \in Packages, launch \in {"noIntent", "started", "threw"} :
       cmds' = Append(cmds,
         [NewCmd("openApp", packageName, NoGesture) EXCEPT
            !.pc = "returned",
            !.activity = IF launch = "started" THEN "launch" ELSE "none",
            !.launchIntent = IF launch = "noIntent" THEN "null" ELSE "found",
            !.rejects = IF launch = "threw" THEN 1 ELSE 0,
            !.resolves = IF launch = "threw" THEN 0 ELSE 1,
            !.promise = CASE launch = "noIntent" -> "false"
                          [] launch = "started" -> "true"
                          [] OTHER -> "OPEN_APP_FAILED"])
  /\ UNCHANGED <<instance, svc, looper, clipboard, req, built, restVars>>

\* ------------------------------------------------------- the capability
\* dispatchGesture's synchronous answer: a service that is not connected
\* refuses; a connected one accepts or refuses (system busy).
Accepts(s) == IF s # NoService /\ svc[s] = "connected" THEN BOOLEAN ELSE {FALSE}

\* rootInActiveWindow of service s: none once the service is disconnected
rootInActiveWindow(s, w) == s # NoService /\ svc[s] = "connected" /\ w.root

\* (mutant) the posted work reads the handle again instead of using the
\* service captured at call time.
workService_rereads(c) == instance

\* The service the posted work operates against: the captured one.
workService(c) == cmds[c].service

\* ------------------------------------------------- main looper: runnables
\* (mutant) the runnable rejects the promise when the captured service is no
\* longer connected.
dispatchRun_rejectsWhenGone(c, accepted) ==
  LET s == workService(c)
      sub == [cmds[c] EXCEPT !.pc = "ran", !.ranOn = s, !.accepted = IF accepted THEN "true" ELSE "false",
                             !.registered = TRUE, !.dispatched = Append(@, cmds[c].gesture),
                             !.life = Append(@, IF accepted THEN "Submitted" ELSE "Rejected")]
  IN  IF svc[s] # "connected"
      THEN [cmds[c] EXCEPT !.pc = "ran", !.ranOn = s, !.rejects = @ + 1,
                           !.promise = Settle(@, "SERVICE_NOT_RUNNING")]
      ELSE IF ~accepted THEN callback(sub, FALSE) ELSE sub

\* (mutant) the runnable forgets the synchronous refusal: no callback(false).
dispatchRun_noReject(c, accepted) ==
  [cmds[c] EXCEPT !.pc = "ran", !.ranOn = workService(c),
                  !.accepted = IF accepted THEN "true" ELSE "false",
                  !.registered = TRUE, !.dispatched = Append(@, cmds[c].gesture),
                  !.life = Append(@, IF accepted THEN "Submitted" ELSE "Rejected")]

\* (mutant) the runnable reports dispatchGesture's answer at once: callback(accepted).
dispatchRun_callbackAccepted(c, accepted) ==
  callback([cmds[c] EXCEPT !.pc = "ran", !.ranOn = workService(c),
                           !.accepted = IF accepted THEN "true" ELSE "false",
                           !.registered = TRUE, !.dispatched = Append(@, cmds[c].gesture),
                           !.life = Append(@, IF accepted THEN "Submitted" ELSE "Rejected")],
           accepted)

\* The runnable of dispatchGestureWithCallback.
dispatchRun(c, accepted) ==
  LET s == workService(c)
      sub == [cmds[c] EXCEPT !.pc = "ran", !.ranOn = s, !.accepted = IF accepted THEN "true" ELSE "false",
                             !.registered = TRUE, !.dispatched = Append(@, cmds[c].gesture),
                             !.life = Append(@, IF accepted THEN "Submitted" ELSE "Rejected")]
  IN  IF s = NoService
      THEN [cmds[c] EXCEPT !.pc = "ran", !.ranOn = s, !.error = "NullReference"]
      ELSE IF ~accepted THEN callback(sub, FALSE) ELSE sub

dispatchGestureWithCallback(c) ==
  /\ looper # << >> /\ Head(looper) = c
  /\ cmds[c].op \in {"tap", "swipe"}
  /\ \E accepted \in Accepts(workService(c)) :
       cmds' = [cmds EXCEPT ![c] = dispatchRun(c, accepted)]
  /\ looper' = Tail(looper)
  /\ UNCHANGED <<instance, svc, clipboard, req, built, restVars>>

\* (mutant) one callback slot shared by all submissions: a completion
\* resolves the command submitted last.
onCompleted_sharedCallback(c) ==
  /\ cmds[c].registered /\ cmds[c].accepted = "true"
  /\ cmds' = [cmds EXCEPT ![c] = [@ EXCEPT !.registered = FALSE, !.report = "completed",
                                           !.life = Append(@, "Completed")],
                          ![Len(cmds)] = callback(@, TRUE)]
  /\ UNCHANGED <<instance, svc, looper, clipboard, req, built, restVars>>

\* GestureResultCallback.onCompleted / onCancelled, delivered on the main
\* looper (handler = null). The capability completes only what it accepted;
\* it may report a cancellation for any submission handed to it, once.
onCompleted(c) ==
  /\ cmds[c].registered /\ cmds[c].accepted = "true"
  /\ cmds' = [cmds EXCEPT ![c] =
       callback([cmds[c] EXCEPT !.registered = FALSE, !.report = "completed",
                                !.life = Append(@, "Completed")], TRUE)]
  /\ UNCHANGED <<instance, svc, looper, clipboard, req, built, restVars>>

\* (mutant) a cancelled gesture is posted again.
onCancelled_retries(c) ==
  /\ cmds[c].registered
  /\ cmds' = [cmds EXCEPT ![c] =
       callback([cmds[c] EXCEPT !.registered = FALSE, !.report = "cancelled",
                                !.life = Append(@, "Cancelled")], FALSE)]
  /\ looper' = Append(looper, c)
  /\ UNCHANGED <<instance, svc, clipboard, req, built, restVars>>

\* (mutant) onCancelled reports success.
onCancelled_reportsTrue(c) ==
  /\ cmds[c].registered
  /\ cmds' = [cmds EXCEPT ![c] =
       callback([cmds[c] EXCEPT !.registered = FALSE, !.report = "cancelled",
                                !.life = Append(@, "Cancelled")], TRUE)]
  /\ UNCHANGED <<instance, svc, looper, clipboard, req, built, restVars>>

\* (mutant) a cancellation is taken for the end of the service.
onCancelled_dropsHandle(c) ==
  /\ cmds[c].registered
  /\ cmds' = [cmds EXCEPT ![c] =
       callback([cmds[c] EXCEPT !.registered = FALSE, !.report = "cancelled",
                                !.life = Append(@, "Cancelled")], FALSE)]
  /\ instance' = NoService
  /\ UNCHANGED <<svc, looper, clipboard, req, built, restVars>>

onCancelled(c) ==
  /\ cmds[c].registered
  /\ cmds' = [cmds EXCEPT ![c] =
       callback([cmds[c] EXCEPT !.registered = FALSE, !.report = "cancelled",
                                !.life = Append(@, "Cancelled")], FALSE)]
  /\ UNCHANGED <<instance, svc, looper, clipboard, req, built, restVars>>

\* (mutant) the lookup returns the node an earlier call acted on, if any.
findTarget_cached(s, w) ==
  IF \E d \in Ids : cmds[d].target \in {InputNode, A11yNode}
  THEN cmds[CHOOSE d \in Ids : cmds[d].target \in {InputNode, A11yNode}].target
  ELSE IF rootInActiveWindow(s, w) /\ w.inputFocus # Null THEN w.inputFocus
  ELSE IF rootInActiveWindow(s, w) /\ w.a11yFocus # Null THEN w.a11yFocus
  ELSE Null

\* (mutant) the lookup prefers accessibility focus.
findTarget_a11yFirst(s, w) ==
  IF rootInActiveWindow(s, w) /\ w.a11yFocus # Null THEN w.a11yFocus
  ELSE IF rootInActiveWindow(s, w) /\ w.inputFocus # Null THEN w.inputFocus
  ELSE Null

\* rootInActiveWindow?.findFocus(FOCUS_INPUT)
\*   ?: rootInActiveWindow?.findFocus(FOCUS_ACCESSIBILITY)
findTarget(s, w) ==
  IF rootInActiveWindow(s, w) /\ w.inputFocus # Null THEN w.inputFocus
  ELSE IF rootInActiveWindow(s, w) /\ w.a11yFocus # Null THEN w.a11yFocus
  ELSE Null

\* (mutant) the result of ACTION_PASTE is dropped: callback(true) after the paste.
pasteRun_ignoresPaste(c, w, w2, setOk, pasteOk) ==
  LET s == workService(c)
      target == findTarget(s, w)
      ran == [cmds[c] EXCEPT !.pc = "ran", !.ranOn = s, !.window = w, !.target = target]
      tried == [ran EXCEPT !.setCalls = Append(@, [node |-> target, text |-> ran.text])]
  IN  IF target = Null THEN callback(ran, FALSE)
      ELSE IF setOk THEN callback([tried EXCEPT !.setRes = "accepted"], TRUE)
      ELSE callback([tried EXCEPT !.setRes = "rejected", !.clipWrites = @ + 1,
                                  !.clipCalls = Append(@, ran.text),
                                  !.focusMoved = (findTarget(s, w2) # target),
                                  !.pasteCalls = Append(@, target),
                                  !.pasteRes = IF pasteOk THEN "accepted" ELSE "rejected"],
                    TRUE)

\* (mutant) with no target the runnable returns without calling back.
pasteRun_silentWithoutTarget(c, w, w2, setOk, pasteOk) ==
  LET s == workService(c)
      target == findTarget(s, w)
      ran == [cmds[c] EXCEPT !.pc = "ran", !.ranOn = s, !.window = w, !.target = target]
      tried == [ran EXCEPT !.setCalls = Append(@, [node |-> target, text |-> ran.text])]
  IN  IF target = Null THEN ran
      ELSE IF setOk THEN callback([tried EXCEPT !.setRes = "accepted"], TRUE)
      ELSE callback([tried EXCEPT !.setRes = "rejected", !.clipWrites = @ + 1,
                                  !.clipCalls = Append(@, ran.text),
                                  !.focusMoved = (findTarget(s, w2) # target),
                                  !.pasteCalls = Append(@, target),
                                  !.pasteRes = IF pasteOk THEN "accepted" ELSE "rejected"],
                    pasteOk)

\* (mutant) the target is looked up again before ACTION_PASTE.
pasteRun_looksUpAgain(c, w, w2, setOk, pasteOk) ==
  LET s == workService(c)
      target == findTarget(s, w)
      ran == [cmds[c] EXCEPT !.pc = "ran", !.ranOn = s, !.window = w, !.target = target]
      tried == [ran EXCEPT !.setCalls = Append(@, [node |-> target, text |-> ran.text])]
  IN  IF target = Null THEN callback(ran, FALSE)
      ELSE IF setOk THEN callback([tried EXCEPT !.setRes = "accepted"], TRUE)
      ELSE callback([tried EXCEPT !.setRes = "rejected", !.clipWrites = @ + 1,
                                  !.clipCalls = Append(@, ran.text),
                                  !.focusMoved = (findTarget(s, w2) # target),
                                  !.pasteCalls = Append(@, findTarget(s, w2)),
                                  !.pasteRes = IF pasteOk THEN "accepted" ELSE "rejected"],
                    pasteOk)

\* The runnable of pasteInternal, as run against window w; by the time
\* ACTION_PASTE is performed the application shows window w2. The target is
\* looked up once, and both actions are performed on that node.
pasteRun(c, w, w2, setOk, pasteOk) ==
  LET s == workService(c)
      target == findTarget(s, w)
      ran == [cmds[c] EXCEPT !.pc = "ran", !.ranOn = s, !.window = w, !.target = target]
      tried == [ran EXCEPT !.setCalls = Append(@, [node |-> target, text |-> ran.text])]
  IN  IF s = NoService
      THEN [cmds[c] EXCEPT !.pc = "ran", !.ranOn = s, !.error = "NullReference"]
      ELSE IF target = Null THEN callback(ran, FALSE)
      ELSE IF setOk THEN callback([tried EXCEPT !.setRes = "accepted"], TRUE)
      ELSE callback([tried EXCEPT !.setRes = "rejected", !.clipWrites = @ + 1,
                                  !.clipCalls = Append(@, ran.text),
                                  !.focusMoved = (findTarget(s, w2) # target),
                                  !.pasteCalls = Append(@, target),
                                  !.pasteRes = IF pasteOk THEN "accepted" ELSE "rejected"],
                    pasteOk)

\* (mutant) the user's own clip is spared: the write is skipped while the
\* clipboard holds what it held before the bridge ran.
pasteClip_sparesPrior(c, w, setOk) ==
  IF workService(c) # NoService /\ findTarget(workService(c), w) # Null /\ ~setOk
     /\ clipboard # InitialClip
  THEN cmds[c].text ELSE clipboard

\* (mutant) the clipboard is written whether or not a target was found.
pasteClip_withoutTarget(c, w, setOk) ==
  IF workService(c) # NoService /\ ~setOk THEN cmds[c].text ELSE clipboard

\* (mutant) the clipboard is written before ACTION_SET_TEXT is tried.
pasteClip_beforeSetText(c, w, setOk) ==
  IF workService(c) # NoService /\ findTarget(workService(c), w) # Null
  THEN cmds[c].text ELSE clipboard

\* clipboard.setPrimaryClip(ClipData.newPlainText("automation", text)) runs
\* only after a target was found and refused ACTION_SET_TEXT.
pasteClip(c, w, setOk) ==
  IF workService(c) # NoService /\ findTarget(workService(c), w) # Null /\ ~setOk
  THEN cmds[c].text ELSE clipboard

pasteInternal(c) ==
  /\ looper # << >> /\ Head(looper) = c
  /\ cmds[c].op = "paste"
  /\ \E w \in Windows, w2 \in Windows, setOk \in BOOLEAN, pasteOk \in BOOLEAN :
       /\ cmds' = [cmds EXCEPT ![c] = pasteRun(c, w, w2, setOk, pasteOk)]
       /\ clipboard' = pasteClip(c, w, setOk)
  /\ looper' = Tail(looper)
  /\ UNCHANGED <<instance, svc, req, built, restVars>>

\* --------------------------------------------------------- specifications
Next ==
  \/ \E s \in Services : onServiceConnected(s)
  \/ \E s \in Services : onDestroy(s)
  \/ isAccessibilityServiceRunning
  \/ openAccessibilitySettings
  \/ openApp
  \/ tap
  \/ swipe
  \/ pasteText
  \/ \E c \in Ids : dispatchGestureWithCallback(c)
  \/ \E c \in Ids : onCompleted(c)
  \/ \E c \in Ids : onCancelled(c)
  \/ \E c \in Ids : pasteInternal(c)

Spec == Init /\ [][Next]_vars

\* The main looper runs every runnable posted to it.
looperRuns(c) == c \in Ids /\ (dispatchGestureWithCallback(c) \/ pasteInternal(c))
LooperFairness == \A c \in 1..MaxCmds : WF_vars(looperRuns(c))

\* The capability reports on every submission it accepted.
capabilityReports(c) ==
  c \in Ids /\ cmds[c].accepted = "true" /\ (onCompleted(c) \/ onCancelled(c))
ReportFairness == \A c \in 1..MaxCmds : WF_vars(capabilityReports(c))

\* Scheduling of the main looper only: the capability may stay silent.
LooperSpec == Spec /\ LooperFairness
\* ... and a capability that reports on what it accepted.
FairSpec == Spec /\ LooperFairness /\ ReportFairness

\* ------------------------------------------- service instances that overlap
\* onServiceConnected of a service object created while an older one has not
\* been destroyed yet (the OS rebinding the service).
onServiceConnectedOverlap(s) ==
  /\ svc[s] = "none"
  /\ \A t \in Services : t > s => svc[t] = "none"
  /\ \E t \in Services : t < s /\ svc[t] = "connected"
  /\ svc' = [svc EXCEPT ![s] = "connected"]
  /\ instance' = s
  /\ UNCHANGED <<looper, cmds, clipboard, req, built, restVars>>

OverlapNext ==
  \/ \E s \in Services : onServiceConnectedOverlap(s)
  \/ Next

OverlapSpec == Init /\ [][OverlapNext]_vars

\* ------------------------------------------------- the gesture builder alone
\* The numbers the builder is driven with: coordinates (0, a pixel, and
\* 2^24 + 1, which no Float holds) and durations in halves of a millisecond
\* (-1.5, 0, 0.5, 1, 2.5 and 50 ms).
Coords == {0, 100, 16777217}
Halves == {-3, 0, 1, 2, 5, 100}

\* tap(x, y, durationMs) up to the gesture it builds
buildTap ==
  /\ \E x \in Coords, y \in Coords, d \in Halves :
       /\ req' = [op |-> "tap", args |-> <<x, y, d>>]
       /\ built' = tapGesture(<<x, y, d>>)
  /\ UNCHANGED <<bridgeVars, restVars>>

\* swipe(startX, startY, endX, endY, durationMs) up to the gesture it builds
buildSwipe ==
  /\ \E x0 \in Coords, y0 \in Coords, x1 \in Coords, y1 \in Coords, d \in Halves :
       /\ req' = [op |-> "swipe", args |-> <<x0, y0, x1, y1, d>>]
       /\ built' = swipeGesture(<<x0, y0, x1, y1, d>>)
  /\ UNCHANGED <<bridgeVars, restVars>>

GestureNext == buildTap \/ buildSwipe

GestureSpec == Init /\ [][GestureNext]_vars

RECURSIVE PathTrace(_)
\* The points a path passes through, in order: the point of its moveTo and
\* the end of every lineTo that leaves the point before it (a lineTo to the
\* current point adds nothing to the contour).
PathTrace(path) ==
  IF path = << >> THEN << >>
  ELSE LET p == << Head(path)[2], Head(path)[3] >>
           rest == PathTrace(Tail(path))
       IN  IF rest # << >> /\ Head(rest) = p THEN rest ELSE <<p>> \o rest

\* What a gesture does on the screen: per stroke, the points passed through,
\* the start time and the duration.
GestureTrace(g) ==
  [i \in 1..Len(g.strokes) |->
     [points |-> PathTrace(g.strokes[i].path),
      startTime |-> g.strokes[i].startTime, duration |-> g.strokes[i].duration]]

\* ------------------------------------------------- the JavaScript facade
DefaultTapMs == 80
DefaultSwipeMs == 150
Platforms == {"android", "ios"}
\* what the native method's promise settles to
NativeOutcomes == {"true", "false", "rejected"}
\* the argument lists the facade is called with: the duration may be left out
JsTapArgs == { <<100, 200>>, <<100, 200, 50>> }
JsSwipeArgs == { <<0, 0, 0, 0>>, <<100, 200, 200, 100, 300>> }

\* Platform.OS === 'android' ? NativeModules.AutomationModule : null
nativeModule == IF platform = "android" THEN "AutomationModule" ELSE Null

\* (mutant) the facade calls the native method without asking ensureAvailable.
jsReturn_skipsCheck(fn, given, method, passed, res) ==
  [fn |-> fn, given |-> given,
   native |-> << [method |-> method, args |-> passed] >>, result |-> res]

\* return ensureAvailable().method(passed) in an async function: with no
\* native module ensureAvailable throws, which rejects the returned promise
\* before any native call; else the native call's promise is the result.
jsReturn(fn, given, method, passed, res) ==
  IF nativeModule = Null
  THEN [fn |-> fn, given |-> given, native |-> << >>, result |-> "Error"]
  ELSE [fn |-> fn, given |-> given,
        native |-> << [method |-> method, args |-> passed] >>, result |-> res]

jsCall(fn, given, method, passed) ==
  /\ Len(jsCalls) < MaxJsCalls
  /\ \E res \in NativeOutcomes :
       jsCalls' = Append(jsCalls, jsReturn(fn, given, method, passed, res))
  /\ UNCHANGED <<bridgeVars, gestureVars, platform, screenVars, speechVars, whisperVars>>

jsIsServiceRunning ==
  jsCall("isServiceRunning", << >>, "isAccessibilityServiceRunning", << >>)

jsOpenAccessibilitySettings ==
  jsCall("openAccessibilitySettings", << >>, "openAccessibilitySettings", << >>)

jsOpenApp == \E p \in Packages : jsCall("openApp", <<p>>, "openApp", <<p>>)

\* durationMs = 80 when left out
jsTap ==
  \E a \in JsTapArgs :
    jsCall("tap", a, "tap", IF Len(a) < 3 THEN Append(a, DefaultTapMs) ELSE a)

\* durationMs = 150 when left out
jsSwipe ==
  \E a \in JsSwipeArgs :
    jsCall("swipe", a, "swipe", IF Len(a) < 5 THEN Append(a, DefaultSwipeMs) ELSE a)

jsPasteText == \E t \in Texts : jsCall("pasteText", <<t>>, "pasteText", <<t>>)

JsInit ==
  /\ instance = NoService
  /\ svc = [s \in Services |-> "none"]
  /\ looper = << >>
  /\ cmds = << >>
  /\ clipboard = InitialClip
  /\ req = NoRequest
  /\ built = NoGesture
  /\ platform \in Platforms
  /\ jsCalls = << >>
  /\ screenIdle
  /\ speechIdle
  /\ whisperIdle

JsNext ==
  \/ jsIsServiceRunning
  \/ jsOpenAccessibilitySettings
  \/ jsOpenApp
  \/ jsTap
  \/ jsSwipe
  \/ jsPasteText

JsSpec == JsInit /\ [][JsNext]_vars

\* ----------------------------------------- the automation control screen
NaN == [nan |-> TRUE, value |-> 0]
\* what the text fields are edited to: a usable value and an unusable one
PackageNames == {"com.example.app", "  "}
Numerals == {"540", "abc"}

\* String.prototype.trim
trim(str) == IF str = "  " THEN "" ELSE str
\* Number(string)
Number(str) ==
  IF str = "540" THEN [nan |-> FALSE, value |-> 540] ELSE NaN
\* Number.isNaN
isNaN(v) == v.nan

\* Platform.OS !== 'android' shows an alert and answers false
ensureAndroid == platform = "android"

\* (mutant) the buttons stay enabled while a command is awaited.
anyBusy_neverDisables == FALSE

anyBusy == busyAction # Null

\* a handler that returned before its try block (after an alert)
returned(action) ==
  /\ handlers' = Append(handlers,
       [action |-> action, pc |-> "returned", result |-> "none", busySet |-> FALSE])
  /\ UNCHANGED busyAction

\* setBusyAction(action); try { await command ... : the command is issued and
\* the handler is suspended at its await
awaitCommand(action) ==
  /\ busyAction' = action
  /\ handlers' = Append(handlers,
       [action |-> action, pc |-> "awaiting", result |-> "none", busySet |-> TRUE])

\* a press of an action button: TouchableOpacity ignores it while disabled
onPress(action, valid) ==
  /\ screen = "automation"
  /\ ~anyBusy
  /\ Len(handlers) < MaxPresses
  /\ IF ensureAndroid /\ valid THEN awaitCommand(action) ELSE returned(action)
  /\ UNCHANGED <<bridgeVars, gestureVars, jsVars, speechVars, whisperVars, screen, packageField, tapX, swipeStartX>>

handleCheckService == onPress("check", TRUE)

handleOpenAccessibilitySettings == onPress("settings", TRUE)

handleOpenTargetApp == onPress("openApp", trim(packageField) # "")

handleTap == onPress("tap", ~isNaN(Number(tapX)))

handleSwipe == onPress("swipe", ~isNaN(Number(swipeStartX)))

handlePaste == onPress("paste", TRUE)

\* the awaited promise settles: the try or the catch branch sets the status
\* text and finally { setBusyAction(null) } ends the handler
resume(h, outcome) ==
  /\ handlers[h].pc = "awaiting"
  /\ handlers' = [handlers EXCEPT ![h].pc = "done", ![h].result = outcome]
  /\ busyAction' = Null
  /\ UNCHANGED <<bridgeVars, gestureVars, jsVars, speechVars, whisperVars, screen, packageField, tapX, swipeStartX>>

\* the two navigation buttons, which are never disabled
setScreen ==
  /\ screen' = IF screen = "home" THEN "automation" ELSE "home"
  /\ UNCHANGED <<bridgeVars, gestureVars, jsVars, speechVars, whisperVars, packageField, tapX, swipeStartX,
                 busyAction, handlers>>

\* the text inputs, which are never disabled
onChangeText ==
  /\ screen = "automation"
  /\ \E p \in PackageNames, x \in Numerals, sx \in Numerals :
       /\ <<p, x, sx>> # <<packageField, tapX, swipeStartX>>
       /\ packageField' = p /\ tapX' = x /\ swipeStartX' = sx
  /\ UNCHANGED <<bridgeVars, gestureVars, jsVars, speechVars, whisperVars, screen, busyAction, handlers>>

ScreenInit ==
  /\ instance = NoService
  /\ svc = [s \in Services |-> "none"]
  /\ looper = << >>
  /\ cmds = << >>
  /\ clipboard = InitialClip
  /\ req = NoRequest
  /\ built = NoGesture
  /\ platform \in Platforms
  /\ jsCalls = << >>
  /\ screenIdle
  /\ speechIdle
  /\ whisperIdle

ScreenNext ==
  \/ handleCheckService
  \/ handleOpenAccessibilitySettings
  \/ handleOpenTargetApp
  \/ handleTap
  \/ handleSwipe
  \/ handlePaste
  \/ \E h \in 1..Len(handlers), outcome \in NativeOutcomes : resume(h, outcome)
  \/ setScreen
  \/ onChangeText

ScreenSpec == ScreenInit /\ [][ScreenNext]_vars

\* ---------------------------------------------- SpeechRecognitionModule
\* what startListening finds: the permission and the availability checks
SpeechGates == {"ok", "PERMISSION_DENIED", "NOT_AVAILABLE"}

\* a module method's call, with its promise
SpeechCall(op) ==
  [op |-> op, state |-> "pending", code |-> "none", settles |-> 0,
   stored |-> FALSE, lost |-> "no", ran |-> FALSE, held |-> NoPromise,
   listeningAfter |-> FALSE]

\* promise.resolve / promise.reject on promise p: the first one settles it
settle(calls, p, state, code) ==
  IF p = NoPromise THEN calls
  ELSE [calls EXCEPT ![p].settles = @ + 1,
                     ![p].state = IF @ = "pending" THEN state ELSE @,
                     ![p].code = IF calls[p].state = "pending" THEN code ELSE @]

\* currentPromise = <other> while it holds p: p is lost if still unsettled
forget(calls, p, how) ==
  IF p # NoPromise /\ calls[p].state = "pending"
  THEN [calls EXCEPT ![p].lost = how]
  ELSE calls

\* a runnable's promise, marked as run with what it found
mark(calls, p) ==
  [calls EXCEPT ![p].ran = TRUE, ![p].held = currentPromise]

\* (mutant) startListening does not look at isListening.
startListening_noCheck ==
  /\ Len(speechCalls) < MaxSpeechCalls
  /\ \E gate \in SpeechGates :
       IF gate # "ok"
       THEN /\ speechCalls' = Append(speechCalls,
                  settle(<<SpeechCall("start")>>, 1, "rejected", gate)[1])
            /\ UNCHANGED uiQueue
       ELSE /\ speechCalls' = Append(speechCalls, SpeechCall("start"))
            /\ uiQueue' = Append(uiQueue, Len(speechCalls) + 1)
  /\ UNCHANGED <<speechRecognizer, currentPromise, isListening, recognizers>>
  /\ UNCHANGED <<bridgeVars, gestureVars, jsVars, screenVars, whisperVars>>

\* startListening on the caller's thread: the three checks, then the post
startListening ==
  /\ Len(speechCalls) < MaxSpeechCalls
  /\ \E gate \in SpeechGates :
       IF isListening
       THEN /\ speechCalls' = Append(speechCalls,
                  settle(<<SpeechCall("start")>>, 1, "rejected", "ALREADY_LISTENING")[1])
            /\ UNCHANGED uiQueue
       ELSE IF gate # "ok"
       THEN /\ speechCalls' = Append(speechCalls,
                  settle(<<SpeechCall("start")>>, 1, "rejected", gate)[1])
            /\ UNCHANGED uiQueue
       ELSE /\ speechCalls' = Append(speechCalls, SpeechCall("start"))
            /\ uiQueue' = Append(uiQueue, Len(speechCalls) + 1)
  /\ UNCHANGED <<speechRecognizer, currentPromise, isListening, recognizers>>
  /\ UNCHANGED <<bridgeVars, gestureVars, jsVars, screenVars, whisperVars>>

\* stopListening on the caller's thread
stopListening ==
  /\ Len(speechCalls) < MaxSpeechCalls
  /\ IF ~isListening
     THEN /\ speechCalls' = Append(speechCalls,
                settle(<<SpeechCall("stop")>>, 1, "resolved", "false")[1])
          /\ UNCHANGED uiQueue
     ELSE /\ speechCalls' = Append(speechCalls, SpeechCall("stop"))
          /\ uiQueue' = Append(uiQueue, Len(speechCalls) + 1)
  /\ UNCHANGED <<speechRecognizer, currentPromise, isListening, recognizers>>
  /\ UNCHANGED <<bridgeVars, gestureVars, jsVars, screenVars, whisperVars>>

\* cancelListening and destroy on the caller's thread only post
postSpeech(op) ==
  /\ Len(speechCalls) < MaxSpeechCalls
  /\ speechCalls' = Append(speechCalls, SpeechCall(op))
  /\ uiQueue' = Append(uiQueue, Len(speechCalls) + 1)
  /\ UNCHANGED <<speechRecognizer, currentPromise, isListening, recognizers>>
  /\ UNCHANGED <<bridgeVars, gestureVars, jsVars, screenVars, whisperVars>>

cancelListening == postSpeech("cancel")

destroy == postSpeech("destroy")

\* startListening's runnable; fails: createSpeechRecognizer throws
startRun(p, fails) ==
  LET stored == [forget(speechCalls, currentPromise, "overwritten") EXCEPT
                   ![p].stored = TRUE, ![p].ran = TRUE, ![p].held = currentPromise]
  IN  IF fails
      THEN /\ isListening' = FALSE
           /\ currentPromise' = NoPromise
           /\ speechCalls' = settle(stored, p, "rejected", "START_FAILED")
           /\ UNCHANGED <<speechRecognizer, recognizers>>
      ELSE /\ currentPromise' = p
           /\ isListening' = TRUE
           /\ recognizers' = Append(recognizers, "listening")
           /\ speechRecognizer' = Len(recognizers) + 1
           /\ speechCalls' = stored

\* stopListening's runnable; throws: speechRecognizer.stopListening() throws
stopRun(p, throws) ==
  IF throws /\ speechRecognizer # NoRecognizer
  THEN /\ speechCalls' = settle(mark(speechCalls, p), p, "rejected", "STOP_FAILED")
       /\ UNCHANGED <<speechRecognizer, currentPromise, isListening, recognizers>>
  ELSE /\ isListening' = FALSE
       /\ speechCalls' = settle(mark(speechCalls, p), p, "resolved", "true")
       /\ UNCHANGED <<speechRecognizer, currentPromise, recognizers>>

\* cancelListening's runnable; throws: speechRecognizer.cancel() throws
cancelRun(p, throws) ==
  IF throws /\ speechRecognizer # NoRecognizer
  THEN /\ speechCalls' = settle(mark(speechCalls, p), p, "rejected", "CANCEL_FAILED")
       /\ UNCHANGED <<speechRecognizer, currentPromise, isListening, recognizers>>
  ELSE /\ recognizers' = IF speechRecognizer = NoRecognizer THEN recognizers
                         ELSE [recognizers EXCEPT ![speechRecognizer] = "cancelled"]
       /\ isListening' = FALSE
       /\ currentPromise' = NoPromise
       /\ speechCalls' =
            [settle(settle(mark(speechCalls, p), currentPromise, "rejected", "CANCELLED"),
                    p, "resolved", "true") EXCEPT ![p].listeningAfter = isListening']
       /\ UNCHANGED speechRecognizer

\* destroy's runnable; throws: speechRecognizer.destroy() throws
destroyRun(p, throws) ==
  IF throws /\ speechRecognizer # NoRecognizer
  THEN /\ speechCalls' = settle(mark(speechCalls, p), p, "rejected", "DESTROY_FAILED")
       /\ UNCHANGED <<speechRecognizer, currentPromise, isListening, recognizers>>
  ELSE /\ recognizers' = IF speechRecognizer = NoRecognizer THEN recognizers
                         ELSE [recognizers EXCEPT ![speechRecognizer] = "destroyed"]
       /\ speechRecognizer' = NoRecognizer
       /\ isListening' = FALSE
       /\ currentPromise' = NoPromise
       /\ speechCalls' =
            [settle(forget(mark(speechCalls, p), currentPromise, "destroyed"),
                    p, "resolved", "true") EXCEPT ![p].listeningAfter = isListening']

\* the UI thread runs the oldest runnable
runOnUiThread ==
  /\ uiQueue # << >>
  /\ uiQueue' = Tail(uiQueue)
  /\ LET p == Head(uiQueue)
     IN  \E flag \in BOOLEAN :
           CASE speechCalls[p].op = "start" -> startRun(p, flag)
             [] speechCalls[p].op = "stop" -> stopRun(p, flag)
             [] speechCalls[p].op = "cancel" -> cancelRun(p, flag)
             [] OTHER -> destroyRun(p, flag)
  /\ UNCHANGED <<bridgeVars, gestureVars, jsVars, screenVars, whisperVars>>

\* a recognizer whose session can still send events to its listener
Live(r) == recognizers[r] \in {"listening", "ended"}

onEndOfSpeech(r) ==
  /\ recognizers[r] = "listening"
  /\ recognizers' = [recognizers EXCEPT ![r] = "ended"]
  /\ isListening' = FALSE
  /\ UNCHANGED <<speechRecognizer, currentPromise, uiQueue, speechCalls>>
  /\ UNCHANGED <<bridgeVars, gestureVars, jsVars, screenVars, whisperVars>>

\* (mutant) onError rejects the promise and keeps holding it.
onError_keepsPromise(r) ==
  /\ Live(r)
  /\ recognizers' = [recognizers EXCEPT ![r] = "finished"]
  /\ isListening' = FALSE
  /\ speechCalls' = settle(speechCalls, currentPromise, "rejected", "RECOGNITION_ERROR")
  /\ UNCHANGED <<speechRecognizer, currentPromise, uiQueue>>
  /\ UNCHANGED <<bridgeVars, gestureVars, jsVars, screenVars, whisperVars>>

onError(r) ==
  /\ Live(r)
  /\ recognizers' = [recognizers EXCEPT ![r] = "finished"]
  /\ isListening' = FALSE
  /\ speechCalls' = settle(speechCalls, currentPromise, "rejected", "RECOGNITION_ERROR")
  /\ currentPromise' = NoPromise
  /\ UNCHANGED <<speechRecognizer, uiQueue>>
  /\ UNCHANGED <<bridgeVars, gestureVars, jsVars, screenVars, whisperVars>>

onResults(r) ==
  /\ Live(r)
  /\ recognizers' = [recognizers EXCEPT ![r] = "finished"]
  /\ isListening' = FALSE
  /\ \E matches \in {"some", "none"} :
       speechCalls' = IF matches = "some"
                      THEN settle(speechCalls, currentPromise, "resolved", "text")
                      ELSE settle(speechCalls, currentPromise, "rejected", "NO_RESULTS")
  /\ currentPromise' = NoPromise
  /\ UNCHANGED <<speechRecognizer, uiQueue>>
  /\ UNCHANGED <<bridgeVars, gestureVars, jsVars, screenVars, whisperVars>>

SpeechInit ==
  /\ instance = NoService
  /\ svc = [s \in Services |-> "none"]
  /\ looper = << >>
  /\ cmds = << >>
  /\ clipboard = InitialClip
  /\ req = NoRequest
  /\ built = NoGesture
  /\ platform = "android"
  /\ jsCalls = << >>
  /\ screenIdle
  /\ speechIdle
  /\ whisperIdle

SpeechNext ==
  \/ startListening
  \/ stopListening
  \/ cancelListening
  \/ destroy
  \/ runOnUiThread
  \/ \E r \in 1..Len(recognizers) : onEndOfSpeech(r)
  \/ \E r \in 1..Len(recognizers) : onError(r)
  \/ \E r \in 1..Len(recognizers) : onResults(r)

SpeechSpec == SpeechInit /\ [][SpeechNext]_vars

\* ------------------------------------------------------------ WhisperModule
\* what startRecording finds after the isRecording and library checks
RecordingGates ==
  {"ok", "PERMISSION_DENIED", "INVALID_BUFFER_SIZE", "RECORD_INIT_FAILED",
   "START_RECORDING_FAILED"}
\* what nativeTranscribe does
Transcriptions == {"text", "NO_RESULTS", "TRANSCRIBE_ERROR"}

\* a module method's call, with its promise
WhisperCall(op) ==
  [op |-> op, state |-> "pending", code |-> "none", settles |-> 0,
   thread |-> NoThread, takenBy |-> NoThread]

settled(call, state, code) == settle(<<call>>, 1, state, code)[1]

\* AudioRecord(...): a new recorder, created for the thread that is to use it
AudioRecord(owner, state) ==
  [owner |-> owner, state |-> state, releasedBy |-> NoThread, nulledBy |-> NoThread]

\* Thread { ... } capturing promise, not yet at its first statement
Thread(promise) ==
  [promise |-> promise, pc |-> "begin", audioData |-> "empty"]

\* startRecording, on the native modules thread
startRecording ==
  /\ Len(whisperCalls) < MaxWhisperCalls
  /\ \E gate \in RecordingGates :
       LET p == Len(whisperCalls) + 1
           t == Len(recordingThreads) + 1
           a == Len(recorders) + 1
       IN  CASE isRecording ->
                  /\ whisperCalls' = Append(whisperCalls,
                       settled(WhisperCall("start"), "rejected", "ALREADY_RECORDING"))
                  /\ UNCHANGED <<audioRecord, isRecording, recordingPromise,
                                 recordingThreads, recorders>>
             [] ~isRecording /\ gate = "PERMISSION_DENIED" ->
                  /\ whisperCalls' = Append(whisperCalls,
                       settled(WhisperCall("start"), "rejected", gate))
                  /\ UNCHANGED <<audioRecord, isRecording, recordingPromise,
                                 recordingThreads, recorders>>
             [] ~isRecording /\ gate # "PERMISSION_DENIED" /\ ~isLibraryLoaded ->
                  /\ whisperCalls' = Append(whisperCalls,
                       settled(WhisperCall("start"), "rejected", "LIBRARY_NOT_LOADED"))
                  /\ UNCHANGED <<audioRecord, isRecording, recordingPromise,
                                 recordingThreads, recorders>>
             [] ~isRecording /\ isLibraryLoaded /\ gate = "INVALID_BUFFER_SIZE" ->
                  /\ whisperCalls' = Append(whisperCalls,
                       settled(WhisperCall("start"), "rejected", gate))
                  /\ UNCHANGED <<audioRecord, isRecording, recordingPromise,
                                 recordingThreads, recorders>>
             [] ~isRecording /\ isLibraryLoaded /\ gate = "START_RECORDING_FAILED" ->
                  \* the AudioRecord constructor throws
                  /\ whisperCalls' = Append(whisperCalls,
                       settled(WhisperCall("start"), "rejected", gate))
                  /\ isRecording' = FALSE
                  /\ UNCHANGED <<audioRecord, recordingPromise, recordingThreads, recorders>>
             [] ~isRecording /\ isLibraryLoaded /\ gate = "RECORD_INIT_FAILED" ->
                  /\ recorders' = Append(recorders, AudioRecord(NoThread, "uninitialized"))
                  /\ audioRecord' = a
                  /\ whisperCalls' = Append(whisperCalls,
                       settled(WhisperCall("start"), "rejected", gate))
                  /\ UNCHANGED <<isRecording, recordingPromise, recordingThreads>>
             [] ~isRecording /\ isLibraryLoaded /\ gate = "ok" ->
                  /\ recorders' = Append(recorders, AudioRecord(t, "initialized"))
                  /\ audioRecord' = a
                  /\ isRecording' = TRUE
                  /\ recordingPromise' = p
                  /\ recordingThreads' = Append(recordingThreads, Thread(p))
                  /\ whisperCalls' = Append(whisperCalls,
                       [WhisperCall("start") EXCEPT !.thread = t])
  /\ UNCHANGED <<isLibraryLoaded, whisperUi>>
  /\ UNCHANGED <<bridgeVars, gestureVars, jsVars, screenVars, speechVars>>

stopRecording ==
  /\ Len(whisperCalls) < MaxWhisperCalls
  /\ isRecording' = FALSE
  /\ whisperCalls' = Append(whisperCalls,
       settled(WhisperCall("stop"), "resolved", IF isRecording THEN "true" ELSE "false"))
  /\ UNCHANGED <<isLibraryLoaded, audioRecord, recordingPromise, recordingThreads,
                 recorders, whisperUi>>
  /\ UNCHANGED <<bridgeVars, gestureVars, jsVars, screenVars, speechVars>>

\* release, on the native modules thread; its join(1000) may time out
release ==
  /\ Len(whisperCalls) < MaxWhisperCalls
  /\ isRecording' = FALSE
  /\ recorders' = IF audioRecord = NoRecorder THEN recorders
                  ELSE [recorders EXCEPT ![audioRecord].state = "released"]
  /\ audioRecord' = NoRecorder
  /\ whisperCalls' = Append(whisperCalls,
       settled(WhisperCall("release"), "resolved", "true"))
  /\ UNCHANGED <<isLibraryLoaded, recordingPromise, recordingThreads, whisperUi>>
  /\ UNCHANGED <<bridgeVars, gestureVars, jsVars, screenVars, speechVars>>

\* the recording thread's first statement: audioRecord?.startRecording()
threadBegin(t) ==
  /\ recordingThreads[t].pc = "begin"
  /\ recordingThreads' = [recordingThreads EXCEPT ![t].pc = "loop"]
  /\ recorders' = IF audioRecord = NoRecorder THEN recorders
                  ELSE [recorders EXCEPT ![audioRecord].state = "recording"]
  /\ UNCHANGED <<isLibraryLoaded, audioRecord, isRecording, recordingPromise,
                 whisperCalls, whisperUi>>
  /\ UNCHANGED <<bridgeVars, gestureVars, jsVars, screenVars, speechVars>>

\* one turn of while (isRecording) that reads samples
threadRead(t) ==
  /\ recordingThreads[t].pc = "loop"
  /\ isRecording
  /\ audioRecord # NoRecorder
  /\ recorders[audioRecord].state = "recording"
  /\ recordingThreads[t].audioData = "empty"
  /\ recordingThreads' = [recordingThreads EXCEPT ![t].audioData = "samples"]
  /\ UNCHANGED <<isLibraryLoaded, audioRecord, isRecording, recordingPromise,
                 whisperCalls, recorders, whisperUi>>
  /\ UNCHANGED <<bridgeVars, gestureVars, jsVars, screenVars, speechVars>>

\* while (isRecording) finds it false
threadExit(t) ==
  /\ recordingThreads[t].pc = "loop"
  /\ ~isRecording
  /\ recordingThreads' = [recordingThreads EXCEPT ![t].pc = "release"]
  /\ UNCHANGED <<isLibraryLoaded, audioRecord, isRecording, recordingPromise,
                 whisperCalls, recorders, whisperUi>>
  /\ UNCHANGED <<bridgeVars, gestureVars, jsVars, screenVars, speechVars>>

\* audioRecord?.stop(); audioRecord?.release()
threadRelease(t) ==
  /\ recordingThreads[t].pc = "release"
  /\ recordingThreads' = [recordingThreads EXCEPT ![t].pc = "null"]
  /\ recorders' = IF audioRecord = NoRecorder THEN recorders
                  ELSE [recorders EXCEPT ![audioRecord].state = "released",
                                         ![audioRecord].releasedBy = t]
  /\ UNCHANGED <<isLibraryLoaded, audioRecord, isRecording, recordingPromise,
                 whisperCalls, whisperUi>>
  /\ UNCHANGED <<bridgeVars, gestureVars, jsVars, screenVars, speechVars>>

\* audioRecord = null
threadNull(t) ==
  /\ recordingThreads[t].pc = "null"
  /\ recordingThreads' = [recordingThreads EXCEPT ![t].pc = "take"]
  /\ recorders' = IF audioRecord = NoRecorder THEN recorders
                  ELSE [recorders EXCEPT ![audioRecord].nulledBy = t]
  /\ audioRecord' = NoRecorder
  /\ UNCHANGED <<isLibraryLoaded, isRecording, recordingPromise, whisperCalls, whisperUi>>
  /\ UNCHANGED <<bridgeVars, gestureVars, jsVars, screenVars, speechVars>>

\* val currentPromise = recordingPromise; recordingPromise = null; then the
\* runnable for (currentPromise ?: promise) is given to the UI thread
threadTake(t) ==
  /\ recordingThreads[t].pc = "take"
  /\ recordingThreads' = [recordingThreads EXCEPT ![t].pc = "done"]
  /\ recordingPromise' = NoPromise
  /\ whisperCalls' = IF recordingPromise = NoPromise THEN whisperCalls
                     ELSE [whisperCalls EXCEPT ![recordingPromise].takenBy = t]
  /\ whisperUi' = Append(whisperUi,
       [promise |-> IF recordingPromise # NoPromise THEN recordingPromise
                    ELSE recordingThreads[t].promise,
        run |-> IF recordingThreads[t].audioData = "empty" THEN "noAudio" ELSE "transcribe"])
  /\ UNCHANGED <<isLibraryLoaded, audioRecord, isRecording, recorders>>
  /\ UNCHANGED <<bridgeVars, gestureVars, jsVars, screenVars, speechVars>>

\* transcribeAudio(audioData, promise)
transcribeAudio(calls, p, outcome) ==
  IF ~isLibraryLoaded THEN settle(calls, p, "rejected", "LIBRARY_NOT_LOADED")
  ELSE IF outcome = "text" THEN settle(calls, p, "resolved", "text")
  ELSE settle(calls, p, "rejected", outcome)

\* the UI thread runs the oldest runnable of the recording threads
whisperOnUiThread ==
  /\ whisperUi # << >>
  /\ whisperUi' = Tail(whisperUi)
  /\ LET r == Head(whisperUi)
     IN  IF r.run = "noAudio"
         THEN whisperCalls' = settle(whisperCalls, r.promise, "rejected", "NO_AUDIO")
         ELSE \E outcome \in Transcriptions :
                whisperCalls' = transcribeAudio(whisperCalls, r.promise, outcome)
  /\ UNCHANGED <<isLibraryLoaded, audioRecord, isRecording, recordingPromise,
                 recordingThreads, recorders>>
  /\ UNCHANGED <<bridgeVars, gestureVars, jsVars, screenVars, speechVars>>

WhisperInit ==
  /\ instance = NoService
  /\ svc = [s \in Services |-> "none"]
  /\ looper = << >>
  /\ cmds = << >>
  /\ clipboard = InitialClip
  /\ req = NoRequest
  /\ built = NoGesture
  /\ platform = "android"
  /\ jsCalls = << >>
  /\ screenIdle
  /\ speechIdle
  /\ isLibraryLoaded \in BOOLEAN
  /\ audioRecord = NoRecorder
  /\ isRecording = FALSE
  /\ recordingPromise = NoPromise
  /\ whisperCalls = << >>
  /\ recordingThreads = << >>
  /\ recorders = << >>
  /\ whisperUi = << >>

WhisperNext ==
  \/ startRecording
  \/ stopRecording
  \/ release
  \/ \E t \in 1..Len(recordingThreads) : threadBegin(t)
  \/ \E t \in 1..Len(recordingThreads) : threadRead(t)
  \/ \E t \in 1..Len(recordingThreads) : threadExit(t)
  \/ \E t \in 1..Len(recordingThreads) : threadRelease(t)
  \/ \E t \in 1..Len(recordingThreads) : threadNull(t)
  \/ \E t \in 1..Len(recordingThreads) : threadTake(t)
  \/ whisperOnUiThread

WhisperSpec == WhisperInit /\ [][WhisperNext]_vars

\* ------------------------------------------------------------------ claims
IsGesture(c) == cmds[c].op \in {"tap", "swipe"}
Captured(c) == cmds[c].service # NoService

\* C1: the completion callback of a tap or swipe is invoked at most once,
\* whatever the capability reports, also when dispatchGesture refused the
\* submission and the capability later reports a cancellation for it.
C1_CallbackAtMostOnce ==
  \A c \in Ids : IsGesture(c) => Len(cmds[c].calls) <= 1

\* C2: a submitted command whose service was destroyed is eventually resolved,
\* also when the capability reports nothing after the disconnect.
C2_DisconnectResolves ==
  \A c \in 1..MaxCmds :
    (c \in Ids /\ IsGesture(c) /\ cmds[c].accepted = "true"
       /\ cmds[c].promise = "pending" /\ svc[cmds[c].service] = "destroyed")
    ~> (c \in Ids /\ cmds[c].promise # "pending")

\* One step, seen from a call made with the handle Absent (first conjunct:
\* the call itself; second: every later step).
C3_AbsentStep ==
  \A c \in 1..Len(cmds') :
    /\ (c \notin Ids /\ instance = NoService
          /\ cmds'[c].op \in {"tap", "swipe", "paste"}) =>
         /\ cmds'[c].promise = "SERVICE_NOT_RUNNING"
         /\ cmds'[c].started = "false"
         /\ cmds'[c].calls = << >>
         /\ cmds'[c].accepted = "unset" /\ ~cmds'[c].registered
         /\ cmds'[c].target = "unset" /\ cmds'[c].setRes = "none"
         /\ cmds'[c].clipWrites = 0
         /\ looper' = looper /\ clipboard' = clipboard
    /\ (c \in Ids /\ cmds[c].started = "false") =>
         /\ cmds'[c] = cmds[c]
         /\ \A i \in 1..Len(looper') : looper'[i] # c

\* C3: with the handle Absent at call time, tap, swipe and pasteText reject
\* the promise with SERVICE_NOT_RUNNING; nothing is posted, no gesture is
\* submitted, no focus lookup is made, the clipboard is not written and the
\* callback is never invoked, then or later.
C3_AbsentRejects == [][C3_AbsentStep]_vars

C3_Witness ==
  \E c \in Ids, d \in Ids :
    /\ c < d /\ cmds[c].started = "false" /\ cmds[c].promise = "SERVICE_NOT_RUNNING"
    /\ cmds[d].pc = "ran" /\ cmds[d].promise = "true"

\* The parts of C4: the caller eventually holds an outcome; an accepted
\* submission is pending until the capability reports; an outcome, once
\* delivered, is the only one.
C4_Outcomes == {"true", "false"}
C4_Eventually ==
  \A c \in 1..MaxCmds :
    (c \in Ids /\ IsGesture(c) /\ Captured(c))
    ~> (c \in Ids /\ cmds[c].promise \in C4_Outcomes)
C4_PendingUntilReport ==
  \A c \in Ids :
    (IsGesture(c) /\ cmds[c].accepted = "true" /\ cmds[c].report = "none")
    => cmds[c].promise = "pending"
C4_SettledStep ==
  \A c \in Ids : cmds[c].promise # "pending" => cmds'[c].promise = cmds[c].promise

C5_Lives ==
  { <<"Issued">>, <<"Issued", "Rejected">>, <<"Issued", "Submitted">>,
    <<"Issued", "Submitted", "Completed">>, <<"Issued", "Submitted", "Cancelled">> }

\* C5: a gesture command's lifecycle is Issued, then Rejected or Submitted,
\* then from Submitted Completed or Cancelled, and nothing after a terminal
\* state (no Completed or Cancelled without Submitted).
C5_Lifecycle ==
  \A c \in Ids : (IsGesture(c) /\ Captured(c)) => cmds[c].life \in C5_Lives

\* C6: the caller of tap/swipe gets true exactly when the capability reported
\* Completed for the command; a refused submission and a Cancelled report
\* both give false.
C6_TrueIffCompleted ==
  \A c \in Ids :
    IsGesture(c) =>
      /\ (cmds[c].promise = "true") <=> (cmds[c].report = "completed")
      /\ cmds[c].accepted = "false" => cmds[c].promise = "false"
      /\ cmds[c].report = "cancelled" => cmds[c].promise = "false"

C6_Witness ==
  \E c \in Ids, d \in Ids :
    /\ IsGesture(c) /\ cmds[c].report = "completed" /\ cmds[c].promise = "true"
    /\ IsGesture(d) /\ cmds[d].accepted = "true" /\ cmds[d].report = "cancelled"
    /\ cmds[d].promise = "false"

\* C7: when dispatchGesture refuses the submission, the token is resolved to
\* false in the step that made the submission, before any capability report.
C7_RejectedAtOnce ==
  \A c \in Ids :
    (IsGesture(c) /\ cmds[c].accepted = "false") =>
      /\ cmds[c].calls # << >> /\ cmds[c].calls[1] = FALSE
      /\ cmds[c].promise = "false"
      /\ cmds[c].life[2] = "Rejected"

C7_Witness ==
  \E c \in Ids :
    /\ IsGesture(c) /\ cmds[c].accepted = "false" /\ cmds[c].report = "none"
    /\ svc[cmds[c].service] = "connected" /\ cmds[c].promise = "false"

\* C8: tap, swipe and pasteText work against the service captured at call
\* time: once captured, the call is never rejected as SERVICE_NOT_RUNNING, the
\* posted work runs against the captured service (never a null or another
\* reference), and a disconnect shows only in the callback's result.
C8_CapturedService ==
  \A c \in Ids :
    Captured(c) =>
      /\ cmds[c].promise # "SERVICE_NOT_RUNNING" /\ cmds[c].rejects = 0
      /\ cmds[c].error = "none"
      /\ cmds[c].ranOn \in {NotRun, cmds[c].service}
      /\ (cmds[c].pc = "ran" /\ cmds[c].accepted # "true") => cmds[c].promise # "pending"

\* a paste whose lookup would have found a focused node, had its service
\* still been connected when the posted work ran
C8_Witness ==
  \E c \in Ids :
    /\ cmds[c].op = "paste" /\ cmds[c].pc = "ran" /\ instance = NoService
    /\ cmds[c].window.inputFocus = InputNode /\ cmds[c].target = Null
    /\ cmds[c].promise = "false"

\* The step in which a paste's posted work runs: ACTION_SET_TEXT is tried on
\* the target found, and when the target accepts it the call is over.
C9_DirectSetStep ==
  \A c \in Ids :
    /\ (cmds[c].pc = "posted" /\ cmds'[c].target \in {InputNode, A11yNode}) =>
         cmds'[c].setRes # "none"
    /\ (cmds[c].pc = "posted" /\ cmds'[c].setRes = "accepted") =>
         /\ cmds'[c].promise = "true" /\ cmds'[c].calls = <<TRUE>>
         /\ clipboard' = clipboard
         /\ cmds'[c].pasteRes = "none" /\ cmds'[c].clipWrites = 0

\* C9: when the focused target accepts ACTION_SET_TEXT, pasteText succeeds,
\* the clipboard is left as it was and no paste is attempted.
C9_DirectSet == [][C9_DirectSetStep]_vars

C9_Witness ==
  \E c \in Ids :
    /\ cmds[c].op = "paste" /\ cmds[c].setRes = "accepted" /\ cmds[c].promise = "true"
    /\ clipboard = InitialClip

\* A paste that succeeded, and not by ACTION_SET_TEXT.
C10_ViaClipboard(c) == cmds[c].promise = "true" /\ cmds[c].setRes # "accepted"
C10_Inv ==
  \A c \in Ids :
    (cmds[c].op = "paste" /\ cmds[c].pc = "ran") =>
      /\ C10_ViaClipboard(c) <=>
           /\ cmds[c].target \in {InputNode, A11yNode}
           /\ cmds[c].setRes = "rejected" /\ cmds[c].pasteRes = "accepted"
      /\ (cmds[c].setRes = "rejected" /\ cmds[c].pasteRes = "rejected") =>
           (cmds[c].promise = "false" /\ cmds[c].calls = <<FALSE>>)
C10_Step ==
  \A c \in Ids :
    (cmds[c].pc = "posted" /\ cmds'[c].pasteRes = "accepted") =>
      (clipboard' = cmds[c].text /\ cmds'[c].promise = "true")

\* C10: pasteText succeeds by the clipboard exactly when a target was found,
\* refused ACTION_SET_TEXT and accepted ACTION_PASTE, and the clipboard then
\* holds the injected text; when both actions are refused the call fails.
C10_ClipboardPaste == []C10_Inv /\ [][C10_Step]_vars

C10_Witness ==
  \E c \in Ids :
    /\ cmds[c].op = "paste" /\ cmds[c].setRes = "rejected"
    /\ cmds[c].pasteRes = "accepted" /\ cmds[c].promise = "true"
    /\ clipboard = cmds[c].text

\* The posted work of a paste, run when no node holds either focus.
IsPaste(c) == cmds[c].op = "paste"
C11_NoTargetStep ==
  \A c \in Ids :
    (IsPaste(c) /\ cmds[c].pc = "posted" /\ cmds'[c].pc = "ran") =>
      /\ (cmds'[c].window.inputFocus = Null /\ cmds'[c].window.a11yFocus = Null)
           => cmds'[c].target = Null
      /\ cmds'[c].target = Null =>
           /\ cmds'[c].calls = <<FALSE>> /\ cmds'[c].promise = "false"
           /\ cmds'[c].setCalls = << >> /\ cmds'[c].setRes = "none"
           /\ cmds'[c].pasteCalls = << >> /\ cmds'[c].pasteRes = "none"
           /\ cmds'[c].clipCalls = << >> /\ cmds'[c].clipWrites = 0
           /\ clipboard' = clipboard

\* C11: when no node holds input focus and none holds accessibility focus,
\* pasteText fails (callback(false)) without trying ACTION_SET_TEXT, without
\* trying ACTION_PASTE and without writing the clipboard.
C11_NoFocusedTarget == [][C11_NoTargetStep]_vars

C11_Witness ==
  \E c \in Ids :
    /\ IsPaste(c) /\ cmds[c].pc = "ran" /\ svc[cmds[c].service] = "connected"
    /\ cmds[c].window.root
    /\ cmds[c].window.inputFocus = Null /\ cmds[c].window.a11yFocus = Null
    /\ cmds[c].target = Null /\ cmds[c].promise = "false"
    /\ clipboard = InitialClip

\* C12: the injection target is the node holding input focus whenever there
\* is one; the node holding accessibility focus is the target only when no
\* node holds input focus; every action of the call goes to the target.
C12_InputFocusFirst ==
  \A c \in Ids :
    (IsPaste(c) /\ cmds[c].pc = "ran" /\ cmds[c].target # Null) =>
      /\ cmds[c].window.inputFocus # Null => cmds[c].target = cmds[c].window.inputFocus
      /\ cmds[c].target = cmds[c].window.a11yFocus => cmds[c].window.inputFocus = Null
      /\ \A i \in 1..Len(cmds[c].setCalls) : cmds[c].setCalls[i].node = cmds[c].target
      /\ \A i \in 1..Len(cmds[c].pasteCalls) : cmds[c].pasteCalls[i] = cmds[c].target

C12_Witness ==
  \E c \in Ids, d \in Ids :
    /\ IsPaste(c) /\ cmds[c].window.inputFocus = InputNode
    /\ cmds[c].window.a11yFocus = A11yNode /\ cmds[c].target = InputNode
    /\ cmds[c].setCalls # << >> /\ cmds[c].pasteCalls = <<InputNode>>
    /\ IsPaste(d) /\ cmds[d].window.inputFocus = Null /\ cmds[d].target = A11yNode

\* One pasteText call, once its posted work ran: how often each action was
\* performed, on which node and with which text.
C13_Inv ==
  \A c \in Ids :
    (IsPaste(c) /\ cmds[c].pc = "ran") =>
      /\ Len(cmds[c].setCalls) <= 1 /\ Len(cmds[c].pasteCalls) <= 1
      /\ Len(cmds[c].clipCalls) <= 1 /\ cmds[c].clipWrites = Len(cmds[c].clipCalls)
      /\ \A i \in 1..Len(cmds[c].setCalls) : cmds[c].setCalls[i].text = cmds[c].text
      /\ \A i \in 1..Len(cmds[c].clipCalls) : cmds[c].clipCalls[i] = cmds[c].text
      /\ cmds[c].pasteCalls # << >> =>
           /\ cmds[c].setCalls # << >>
           /\ cmds[c].pasteCalls[1] = cmds[c].setCalls[1].node
C13_Step ==
  /\ clipboard' # clipboard =>
       \E c \in Ids : IsPaste(c) /\ cmds[c].pc = "posted" /\ clipboard' = cmds[c].text
  /\ \A c \in Ids : cmds[c].pc = "ran" =>
       /\ cmds'[c].setCalls = cmds[c].setCalls
       /\ cmds'[c].pasteCalls = cmds[c].pasteCalls
       /\ cmds'[c].clipCalls = cmds[c].clipCalls

\* C13: within one pasteText call ACTION_SET_TEXT and ACTION_PASTE are
\* performed on the same node, also when focus moves in between; each is
\* performed at most once, the clipboard is written at most once, and what
\* is set or written is the call's whole text.
C13_SameTargetOnce == []C13_Inv /\ [][C13_Step]_vars

C13_Witness ==
  \E c \in Ids :
    /\ IsPaste(c) /\ cmds[c].focusMoved /\ cmds[c].text = "hello"
    /\ cmds[c].setCalls = << [node |-> cmds[c].target, text |-> "hello"] >>
    /\ cmds[c].pasteCalls = << cmds[c].target >>
    /\ cmds[c].clipCalls = << "hello" >> /\ clipboard = "hello"

\* C14: every requested duration that is 0 or less once converted to Long
\* gives a stroke of duration 1, and the gesture is built all the same; a
\* duration of 1 or more is the stroke's duration.
C14_DurationCoerced ==
  req.op # "none" =>
    LET d == toLong(req.args[Len(req.args)])
    IN  /\ Len(built.strokes) = 1
        /\ d <= 0 => built.strokes[1].duration = 1
        /\ d >= 1 => built.strokes[1].duration = d

C14_Witness ==
  /\ req.op = "swipe" /\ req.args[5] = -3
  /\ Len(built.strokes) = 1 /\ built.strokes[1].duration = 1

C16_Done(c) ==
  IsGesture(c) /\ cmds[c].accepted = "true" /\ cmds[c].report = "completed"

\* C16 as stated: the stroke of tap(x, y, d), d >= 1, is at (x, y) and lasts d
\* (d is held in halves of a millisecond).
C16_ExactPoint ==
  \A c \in Ids :
    (cmds[c].op = "tap" /\ C16_Done(c) /\ cmds[c].args[3] >= 2) =>
      /\ cmds[c].promise = "true" /\ Len(cmds[c].dispatched) = 1
      /\ LET g == cmds[c].dispatched[1]
         IN  /\ Len(g.strokes) = 1
             /\ g.strokes[1].path = << <<"moveTo", cmds[c].args[1], cmds[c].args[2]>> >>
             /\ g.strokes[1].startTime = 0
             /\ 2 * g.strokes[1].duration = cmds[c].args[3]

\* C16 (amended): with the handle Present and a capability that accepts and
\* completes the gesture, tap(x, y, d) with d >= 1 resolves true and the one
\* gesture submitted is one stroke with a single-point path at
\* (x.toFloat(), y.toFloat()), starting at time 0, lasting d.toLong(); a
\* swipe submits one stroke with a two-point path from the converted start
\* to the converted end.
C16_ConvertedPoint ==
  \A c \in Ids :
    C16_Done(c) =>
      /\ cmds[c].promise = "true" /\ Len(cmds[c].dispatched) = 1
      /\ LET g == cmds[c].dispatched[1]
             a == cmds[c].args
         IN  /\ Len(g.strokes) = 1 /\ g.strokes[1].startTime = 0
             /\ (cmds[c].op = "tap" /\ a[3] >= 2) =>
                  /\ g.strokes[1].path = << <<"moveTo", toFloat(a[1]), toFloat(a[2])>> >>
                  /\ g.strokes[1].duration = toLong(a[3])
             /\ cmds[c].op = "swipe" =>
                  g.strokes[1].path = << <<"moveTo", toFloat(a[1]), toFloat(a[2])>>,
                                         <<"lineTo", toFloat(a[3]), toFloat(a[4])>> >>

C16_Witness ==
  \E c \in Ids, d \in Ids :
    /\ cmds[c].op = "tap" /\ C16_Done(c) /\ cmds[c].promise = "true"
    /\ cmds[c].args = <<16777217, 200, 5>>
    /\ cmds[c].dispatched[1].strokes[1].path = << <<"moveTo", 16777216, 200>> >>
    /\ cmds[c].dispatched[1].strokes[1].duration = 2
    /\ cmds[d].op = "swipe" /\ C16_Done(d)

\* The handle follows the service's lifecycle signals, and a query answers
\* with what the handle holds when it is made.
C17_Inv == isRunning <=> (\E s \in Services : svc[s] = "connected")
C17_Step ==
  /\ \A s \in Services :
       /\ (svc[s] = "none" /\ svc'[s] = "connected") => isRunning'
       /\ (svc[s] = "connected" /\ svc'[s] = "destroyed") => ~isRunning'
  /\ \A c \in 1..Len(cmds') :
       (c \notin Ids /\ cmds'[c].op = "isRunning") =>
         /\ cmds'[c].promise = IF isRunning THEN "true" ELSE "false"
         /\ cmds'[c].pc = "returned"

\* C17: isAccessibilityServiceRunning answers true once onServiceConnected
\* has run and false once onDestroy has run, from the first query made after
\* the signal on.
C17_IsRunningFollowsSignals == []C17_Inv /\ [][C17_Step]_vars

C17_Witness ==
  /\ Len(cmds) = 2
  /\ cmds[1].op = "isRunning" /\ cmds[1].promise = "true"
  /\ cmds[2].op = "isRunning" /\ cmds[2].promise = "false"
  /\ svc[1] = "destroyed"

\* One step, seen from the handle.
C18_Step ==
  /\ instance' # instance =>
       \E s \in Services :
         \/ svc[s] = "none" /\ svc'[s] = "connected" /\ instance' = s
         \/ svc[s] = "connected" /\ svc'[s] = "destroyed" /\ instance' = NoService
  /\ (cmds' # cmds \/ looper' # looper \/ clipboard' # clipboard) =>
       (instance' = instance /\ svc' = svc)

\* C18: the handle becomes Present only in onServiceConnected and Absent only
\* in onDestroy; no facade operation and no completion callback changes it,
\* and it holds at most one service at any time.
C18_HandleFrame ==
  [](instance \in Services \cup {NoService}) /\ [][C18_Step]_vars

C18_Witness ==
  \E c \in Ids, d \in Ids :
    /\ cmds[c].op = "openApp" /\ cmds[c].activity = "launch"
    /\ IsGesture(d) /\ cmds[d].report = "cancelled" /\ cmds[d].service = 1
    /\ instance = 1 /\ svc[1] = "connected"

\* Each step touches at most one command, and a command's callback is
\* invoked only in its own runnable or by a report on its own submission.
C19_Step ==
  \A c \in Ids :
    /\ cmds'[c] # cmds[c] => \A d \in Ids \ {c} : cmds'[d] = cmds[d]
    /\ cmds'[c].calls # cmds[c].calls =>
         \/ cmds'[c].report # cmds[c].report
         \/ cmds[c].pc = "posted" /\ cmds'[c].pc = "ran"
\* The runnable at the head of the looper can run, whatever the state of the
\* commands submitted before it.
C19_NoWaiting ==
  \A c \in Ids :
    (looper # << >> /\ Head(looper) = c /\ IsGesture(c)) =>
      ENABLED dispatchGestureWithCallback(c)

\* C19: gestures dispatched concurrently are independent: a report of the
\* capability on one submission resolves that submission's callback and no
\* other command's, and a submission does not wait for the resolution of a
\* command submitted earlier.
C19_Independent == []C19_NoWaiting /\ [][C19_Step]_vars

\* the second gesture was submitted and completed while the first is pending
C19_Witness ==
  /\ Len(cmds) = 2 /\ IsGesture(1) /\ IsGesture(2)
  /\ cmds[1].accepted = "true" /\ cmds[1].report = "none" /\ cmds[1].promise = "pending"
  /\ cmds[2].report = "completed" /\ cmds[2].promise = "true"

\* One step, seen from the capability: what the facade call leaves undone,
\* and where the capability-facing work of a command is done.
C20_Step ==
  /\ \A c \in 1..Len(cmds') :
       c \notin Ids =>
         /\ cmds'[c].dispatched = << >> /\ cmds'[c].accepted = "unset"
         /\ cmds'[c].target = "unset" /\ cmds'[c].setCalls = << >>
         /\ cmds'[c].clipCalls = << >> /\ cmds'[c].pasteCalls = << >>
         /\ cmds'[c].ranOn = NotRun /\ clipboard' = clipboard
  /\ \A c \in Ids :
       ( \/ cmds'[c].dispatched # cmds[c].dispatched \/ cmds'[c].target # cmds[c].target
         \/ cmds'[c].setCalls # cmds[c].setCalls \/ cmds'[c].clipCalls # cmds[c].clipCalls
         \/ cmds'[c].pasteCalls # cmds[c].pasteCalls ) =>
         (looper # << >> /\ Head(looper) = c /\ looper' = Tail(looper))
  /\ clipboard' # clipboard => (looper # << >> /\ looper' = Tail(looper))

\* C20: the gesture submission, the focus lookup, ACTION_SET_TEXT, the
\* clipboard write and ACTION_PASTE are all done by a runnable of the main
\* looper, none of them by the facade call on the caller's context.
C20_OnMainLooper == [][C20_Step]_vars

C20_Witness ==
  \E c \in Ids, d \in Ids :
    /\ IsPaste(c) /\ cmds[c].pc = "ran" /\ cmds[c].pasteCalls # << >>
    /\ cmds[c].clipCalls # << >>
    /\ IsGesture(d) /\ cmds[d].pc = "posted" /\ cmds[d].dispatched = << >>
    /\ looper = << d >>

\* The facade call of a tap or swipe, and what follows until the callback.
C21_Step ==
  \A c \in 1..Len(cmds') :
    (c \notin Ids /\ cmds'[c].op \in {"tap", "swipe"} /\ cmds'[c].started = "true") =>
      /\ cmds'[c].pc = "posted" /\ cmds'[c].promise = "pending"
      /\ cmds'[c].dispatched = << >> /\ cmds'[c].accepted = "unset"
      /\ cmds'[c].calls = << >> /\ cmds'[c].report = "none"
      /\ looper' = Append(looper, c)
C21_Inv ==
  \A c \in Ids :
    (IsGesture(c) /\ Captured(c)) =>
      /\ cmds[c].promise = "pending" <=> cmds[c].calls = << >>
      /\ cmds[c].pc = "posted" => cmds[c].promise = "pending"

\* C21: tap and swipe do not wait for the gesture's outcome: the facade call
\* returns having only posted the work, before the submission runs, with the
\* promise pending, and the promise is settled only when the callback is
\* invoked.
C21_ReturnsBeforeSubmission == []C21_Inv /\ [][C21_Step]_vars

\* both calls have returned, no submission has run
C21_Witness ==
  /\ Len(cmds) = 2 /\ looper = <<1, 2>>
  /\ cmds[1].op = "tap" /\ cmds[2].op = "swipe"
  /\ cmds[1].promise = "pending" /\ cmds[2].promise = "pending"
  /\ cmds[1].dispatched = << >> /\ cmds[2].dispatched = << >>

C22_Inv ==
  \A c \in Ids :
    IsGesture(c) =>
      /\ Len(cmds[c].dispatched) <= 1
      /\ cmds[c].pc = "ran" =>
           (Len(cmds[c].dispatched) = 1 /\ \A i \in 1..Len(looper) : looper[i] # c)
C22_Step ==
  \A c \in Ids :
    (IsGesture(c) /\ cmds[c].pc = "ran") =>
      (cmds'[c].dispatched = cmds[c].dispatched /\ cmds'[c].pc = "ran")

\* C22: no retries: for each tap or swipe dispatchGesture is called at most
\* once, whether the submission was refused, cancelled or completed, and
\* the command is never posted again.
C22_NoRetries == []C22_Inv /\ [][C22_Step]_vars

C22_Witness ==
  \E c \in Ids, d \in Ids :
    /\ IsGesture(c) /\ cmds[c].accepted = "false" /\ cmds[c].report = "cancelled"
    /\ IsGesture(d) /\ cmds[d].accepted = "true" /\ cmds[d].report = "cancelled"
    /\ Len(cmds[c].dispatched) = 1 /\ Len(cmds[d].dispatched) = 1 /\ looper = << >>

\* The kind of failure a tap, swipe or pasteText call ended with.
C23_Kind(c) ==
  CASE cmds[c].started = "false" -> "CapabilityUnavailable"
    [] IsGesture(c) /\ cmds[c].accepted = "false" -> "SubmissionRejected"
    [] IsGesture(c) /\ cmds[c].accepted = "true" /\ cmds[c].report = "cancelled" -> "Cancelled"
    [] IsPaste(c) /\ cmds[c].pc = "ran" /\ cmds[c].target = Null -> "NoFocusedTarget"
    [] IsPaste(c) /\ cmds[c].pasteRes = "rejected" -> "InjectionRejected"
    [] OTHER -> "none"

\* C23: every failure of tap, swipe and pasteText reaches the caller as a
\* failed result, and what the caller holds (the promise's value or error
\* code) tells the kinds of failure apart: two calls that failed in
\* different ways hold different results.
C23_KindsDistinguishable ==
  \A c \in Ids :
    C23_Kind(c) # "none" =>
      /\ cmds[c].promise \in {"false", "SERVICE_NOT_RUNNING"}
      /\ \A d \in Ids :
           (C23_Kind(d) # "none" /\ C23_Kind(d) # C23_Kind(c)) =>
             cmds[d].promise # cmds[c].promise

\* A tap, swipe or pasteText call.
IsCommand(c) == cmds[c].op \in {"tap", "swipe", "paste"}

\* One step: a call made with the handle Present captures the service that
\* is connected now; a call made with the handle Absent fails and changes
\* nothing else; posted work runs against the captured service, and only a
\* connected service accepts a gesture or finds a target.
C24_Step ==
  /\ \A c \in 1..Len(cmds') :
       (c \notin Ids /\ cmds'[c].op \in {"tap", "swipe", "paste"}) =>
         /\ instance # NoService =>
              /\ cmds'[c].service = instance /\ svc[instance] = "connected"
              /\ cmds'[c].started = "true" /\ cmds'[c].promise = "pending"
         /\ instance = NoService =>
              /\ cmds'[c].promise = "SERVICE_NOT_RUNNING"
              /\ instance' = instance /\ svc' = svc /\ looper' = looper
              /\ clipboard' = clipboard
              /\ \A d \in Ids : cmds'[d] = cmds[d]
  /\ \A c \in Ids :
       (IsCommand(c) /\ cmds[c].pc = "posted" /\ cmds'[c].pc = "ran") =>
         /\ cmds'[c].ranOn = cmds[c].service
         /\ (cmds'[c].accepted = "true" \/ cmds'[c].target \in {InputNode, A11yNode})
              => svc[cmds[c].service] = "connected"
\* A gesture posted against a service that is still connected can be
\* accepted, and an accepted one can complete, whatever happened to the
\* services before it.
C24_CanComplete ==
  \A c \in Ids :
    /\ (IsGesture(c) /\ looper # << >> /\ Head(looper) = c
          /\ svc[cmds[c].service] = "connected") =>
         ENABLED (dispatchGestureWithCallback(c) /\ cmds'[c].accepted = "true")
    /\ (IsGesture(c) /\ cmds[c].accepted = "true" /\ cmds[c].registered) =>
         ENABLED (onCompleted(c) /\ cmds'[c].promise = "true")

\* C24: a disconnect touches only the commands issued against the
\* disconnected service: after a disconnect and a reconnect a new tap, swipe
\* or pasteText goes to the new service and can complete, and a call made
\* while the handle is Absent fails without changing any state of the bridge.
C24_ReconnectRecovers == []C24_CanComplete /\ [][C24_Step]_vars

C24_Witness ==
  \E c \in Ids, d \in Ids :
    /\ svc[1] = "destroyed" /\ svc[2] = "connected" /\ instance = 2
    /\ IsGesture(c) /\ cmds[c].service = 1 /\ cmds[c].accepted = "false"
    /\ cmds[c].promise = "false"
    /\ IsGesture(d) /\ cmds[d].service = 2 /\ cmds[d].report = "completed"
    /\ cmds[d].promise = "true"

\* The step in which a paste falls back to the clipboard, and every other
\* step seen from the clipboard.
C25_Step ==
  /\ \A c \in Ids :
       (IsPaste(c) /\ cmds[c].pc = "posted" /\ cmds'[c].setRes = "rejected") =>
         (clipboard' = cmds[c].text /\ cmds'[c].clipCalls = << cmds[c].text >>)
  /\ clipboard' # clipboard =>
       \E c \in Ids : IsPaste(c) /\ cmds[c].pc = "posted"
                       /\ cmds'[c].setRes = "rejected" /\ clipboard' = cmds[c].text
C25_Inv ==
  (\E c \in Ids : IsPaste(c) /\ cmds[c].setRes = "rejected") =>
    (clipboard \in Texts /\ clipboard # InitialClip)

\* C25: whenever pasteText falls back to the clipboard (a target was found
\* and refused ACTION_SET_TEXT), the clipboard is overwritten with the text
\* whatever it held, and nothing puts the earlier content back, also when
\* ACTION_PASTE is refused and the call fails.
C25_ClipboardOverwritten == []C25_Inv /\ [][C25_Step]_vars

C25_Witness ==
  \E c \in Ids :
    /\ IsPaste(c) /\ cmds[c].setRes = "rejected" /\ cmds[c].pasteRes = "rejected"
    /\ cmds[c].promise = "false" /\ clipboard = cmds[c].text /\ looper = << >>

\* What a lookup made against window w finds.
C26_Focused(w) == IF w.inputFocus # Null THEN w.inputFocus ELSE w.a11yFocus

\* C26: every pasteText call looks the target up itself: a call that found
\* a target acts on the node focused in the window its own lookup saw,
\* whatever node an earlier call acted on.
C26_FreshLookup ==
  \A c \in Ids :
    (IsPaste(c) /\ cmds[c].pc = "ran") =>
      /\ cmds[c].target \in {Null, C26_Focused(cmds[c].window)}
      /\ \A i \in 1..Len(cmds[c].setCalls) :
           cmds[c].setCalls[i].node = C26_Focused(cmds[c].window)
      /\ \A i \in 1..Len(cmds[c].pasteCalls) :
           cmds[c].pasteCalls[i] = C26_Focused(cmds[c].window)
      /\ (svc[cmds[c].service] = "connected" /\ cmds[c].window.root) =>
           cmds[c].target = C26_Focused(cmds[c].window)

\* focus moved from the input node to the accessibility node between calls
C26_Witness ==
  /\ Len(cmds) = 2 /\ IsPaste(1) /\ IsPaste(2)
  /\ cmds[1].target = InputNode /\ cmds[1].setCalls[1].node = InputNode
  /\ cmds[2].window.inputFocus = Null /\ cmds[2].target = A11yNode
  /\ cmds[2].setCalls[1].node = A11yNode /\ cmds[2].pasteCalls = << A11yNode >>

\* The openApp call, as one step.
C27_Step ==
  \A c \in 1..Len(cmds') :
    (c \notin Ids /\ cmds'[c].op = "openApp") =>
      /\ cmds'[c].launchIntent = "null" =>
           (cmds'[c].promise = "false" /\ cmds'[c].activity = "none")
      /\ cmds'[c].promise = "false" => cmds'[c].launchIntent = "null"
      /\ cmds'[c].promise = "true" <=> cmds'[c].activity = "launch"
      /\ cmds'[c].activity = "launch" => cmds'[c].launchIntent = "found"
      /\ cmds'[c].promise # "pending" /\ cmds'[c].pc = "returned"
      /\ cmds'[c].service = NoService /\ cmds'[c].started = "unset"
      /\ cmds'[c].dispatched = << >> /\ cmds'[c].calls = << >>
      /\ looper' = looper /\ instance' = instance /\ svc' = svc
\* Whatever the handle holds, openApp can answer true and can answer false.
C27_AnyHandle ==
  Len(cmds) < MaxCmds =>
    /\ ENABLED (openApp /\ cmds'[Len(cmds) + 1].promise = "true")
    /\ ENABLED (openApp /\ cmds'[Len(cmds) + 1].promise = "false")

C28_Step ==
  /\ \A c \in 1..Len(cmds') :
       (c \notin Ids /\ cmds'[c].op = "openSettings") =>
         /\ cmds'[c].activity = "settings" =>
              /\ cmds'[c].promise = "true"
              /\ cmds'[c].resolves = 1 /\ cmds'[c].rejects = 0
         /\ cmds'[c].activity # "settings" =>
              /\ cmds'[c].promise = "OPEN_SETTINGS_FAILED"
              /\ cmds'[c].resolves = 0 /\ cmds'[c].rejects = 1
         /\ instance' = instance /\ svc' = svc
  /\ \A c \in Ids : cmds[c].op = "openSettings" => cmds'[c] = cmds[c]

\* C28: openAccessibilitySettings resolves true when the settings activity
\* was started and rejects with OPEN_SETTINGS_FAILED when it could not be
\* (never false, never left pending); either way the promise is settled
\* once and the handle is as it was.
C28_OpenSettings == [][C28_Step]_vars

C28_Witness ==
  /\ Len(cmds) = 2 /\ instance = 1 /\ svc[1] = "connected"
  /\ cmds[1].op = "openSettings" /\ cmds[1].promise = "OPEN_SETTINGS_FAILED"
  /\ cmds[1].rejects = 1 /\ cmds[1].resolves = 0
  /\ cmds[2].op = "openSettings" /\ cmds[2].promise = "true"
  /\ cmds[2].activity = "settings" /\ cmds[2].resolves = 1

C29_Inv ==
  \A c \in Ids :
    IsCommand(c) =>
      /\ (cmds[c].rejects > 0 \/ cmds[c].promise = "SERVICE_NOT_RUNNING") =>
           /\ cmds[c].started = "false"
           /\ cmds[c].calls = << >> /\ cmds[c].resolves = 0
      /\ cmds[c].started = "true" =>
           (cmds[c].rejects = 0 /\ cmds[c].promise # "SERVICE_NOT_RUNNING")
C29_Step ==
  \A c \in Ids :
    IsCommand(c) =>
      /\ cmds'[c].started = cmds[c].started
      /\ cmds[c].started = "false" => cmds'[c].calls = << >>

\* C29: for one tap, swipe or pasteText call the rejection
\* SERVICE_NOT_RUNNING and a resolution through the callback exclude each
\* other: a rejected call never sees its callback invoked, and a call that
\* captured the service is never rejected, also when the handle is Absent by
\* the time the posted work runs.
C29_RejectOrCallback == []C29_Inv /\ [][C29_Step]_vars

\* the first call ran after its service was destroyed (a lookup that would
\* have found a node found none), the second was rejected
C29_Witness ==
  /\ Len(cmds) = 2 /\ instance = NoService
  /\ IsPaste(1) /\ cmds[1].started = "true" /\ cmds[1].pc = "ran"
  /\ cmds[1].window.inputFocus = InputNode /\ cmds[1].target = Null
  /\ cmds[1].calls = <<FALSE>> /\ cmds[1].promise = "false" /\ cmds[1].rejects = 0
  /\ IsCommand(2) /\ cmds[2].promise = "SERVICE_NOT_RUNNING" /\ cmds[2].calls = << >>

C30_Inv ==
  \A c \in Ids :
    (IsPaste(c) /\ cmds[c].started = "true") =>
      /\ cmds[c].pc = "posted" => cmds[c].calls = << >>
      /\ cmds[c].pc = "ran" => (Len(cmds[c].calls) = 1 /\ cmds[c].resolves = 1)
      /\ cmds[c].pc \in {"posted", "ran"}
C30_Step ==
  \A c \in Ids :
    (IsPaste(c) /\ cmds[c].pc = "ran") => cmds'[c].calls = cmds[c].calls

\* C30: a pasteText call made with the handle Present has its callback
\* invoked exactly once when the posted work runs, on each path of
\* pasteInternal (no target, ACTION_SET_TEXT accepted, ACTION_PASTE accepted,
\* ACTION_PASTE refused), and never again.
C30_PasteCallbackOnce == []C30_Inv /\ [][C30_Step]_vars

C30_Witness ==
  /\ Len(cmds) = 2 /\ IsPaste(1) /\ IsPaste(2) /\ looper = << >>
  /\ cmds[1].target = Null /\ cmds[1].calls = <<FALSE>>
  /\ cmds[2].pasteRes = "accepted" /\ cmds[2].calls = <<TRUE>>

\* C31: isRunning() is true whenever some service has had onServiceConnected
\* and not yet onDestroy, for every interleaving of the signals of several
\* service objects, also when an older one is destroyed after a newer one
\* connected.
C31_RunningWhileConnected ==
  (\E s \in Services : svc[s] = "connected") => isRunning

\* The native method each facade function stands for, and the duration it
\* passes when the caller gave none.
C32_Method(fn) == IF fn = "isServiceRunning" THEN "isAccessibilityServiceRunning" ELSE fn
C32_Arity(fn) == CASE fn = "tap" -> 3 [] fn = "swipe" -> 5 [] OTHER -> 0
C32_Default(fn) == IF fn = "tap" THEN DefaultTapMs ELSE DefaultSwipeMs

\* C32: off Android (no native module) every function of the JavaScript
\* facade returns a rejected promise and calls no native method; with the
\* module present each makes exactly one native call, of its own method,
\* with the arguments as given (a duration left out is filled in), and
\* returns what that call returns.
C32_JsFacade ==
  \A i \in 1..Len(jsCalls) :
    LET call == jsCalls[i]
    IN  /\ platform # "android" => (call.native = << >> /\ call.result = "Error")
        /\ platform = "android" =>
             /\ Len(call.native) = 1
             /\ call.native[1].method = C32_Method(call.fn)
             /\ call.result \in NativeOutcomes
             /\ \A k \in 1..Len(call.given) : call.native[1].args[k] = call.given[k]
             /\ Len(call.native[1].args) \in {Len(call.given), C32_Arity(call.fn)}
             /\ Len(call.native[1].args) > Len(call.given) =>
                  call.native[1].args[C32_Arity(call.fn)] = C32_Default(call.fn)

C32_Witness ==
  /\ platform = "ios" /\ Len(jsCalls) = 2
  /\ jsCalls[1].fn = "tap" /\ jsCalls[1].given = <<100, 200, 50>>
  /\ jsCalls[1].native = << >> /\ jsCalls[1].result = "Error"
  /\ jsCalls[2].fn = "pasteText" /\ jsCalls[2].native = << >>

C33_Awaiting == { h \in 1..Len(handlers) : handlers[h].pc = "awaiting" }

\* C33: on the automation control screen busyAction is non-null exactly
\* while one handler awaits its command, and names that handler; it is null
\* once every handler has finished, whatever the command answered (true,
\* false or a throw); at most one command from the screen is in flight.
C33_BusyWhileAwaiting ==
  /\ Cardinality(C33_Awaiting) <= 1
  /\ anyBusy <=> C33_Awaiting # {}
  /\ \A h \in C33_Awaiting : busyAction = handlers[h].action

\* a command that threw has ended its handler, and a further command is
\* awaited after it
C33_Witness ==
  /\ Len(handlers) = 2
  /\ handlers[1].pc = "done" /\ handlers[1].result = "rejected"
  /\ busyAction = "tap" /\ handlers[2].pc = "awaiting"

C34_Starts == { p \in 1..Len(speechCalls) : speechCalls[p].op = "start" }

\* C34: the module never overwrites currentPromise while it refers to an
\* unsettled promise: no accepted startListening promise has been replaced
\* in currentPromise by another startListening promise before it was settled.
C34_NeverOverwritten ==
  \A p \in C34_Starts : speechCalls[p].lost # "overwritten"

\* a startListening call is the step that adds a "start" entry to speechCalls
C35_StartCalled ==
  /\ Len(speechCalls') = Len(speechCalls) + 1
  /\ speechCalls'[Len(speechCalls')].op = "start"

\* C35: a startListening call made while isListening is true is rejected
\* with ALREADY_LISTENING and changes nothing of the running session:
\* currentPromise, isListening, the recognizer and the UI thread's queue
\* stay as they were, and no earlier promise is touched.
C35_AlreadyListening ==
  [][(isListening /\ C35_StartCalled) =>
       /\ speechCalls'[Len(speechCalls')].state = "rejected"
       /\ speechCalls'[Len(speechCalls')].code = "ALREADY_LISTENING"
       /\ speechCalls'[Len(speechCalls')].settles = 1
       /\ SubSeq(speechCalls', 1, Len(speechCalls)) = speechCalls
       /\ UNCHANGED <<currentPromise, isListening, speechRecognizer, recognizers, uiQueue>>]_vars

\* a session is running with its promise unsettled, and a second
\* startListening has been turned away
C35_Witness ==
  /\ isListening /\ currentPromise = 1 /\ speechRecognizer = 1
  /\ speechCalls[1].state = "pending"
  /\ Len(speechCalls) >= 2
  /\ speechCalls[2].op = "start" /\ speechCalls[2].code = "ALREADY_LISTENING"

\* C36: every startListening promise is settled at most once, whatever the
\* order of recognizer events and module calls; the module never holds a
\* promise that it has already settled.
C36_SettledAtMostOnce ==
  /\ \A p \in C34_Starts : speechCalls[p].settles <= 1
  /\ currentPromise # NoPromise => speechCalls[currentPromise].settles = 0

\* a promise settled by onError, with its recognizer's session over and a
\* cancelListening run after it
C36_Witness ==
  /\ Len(speechCalls) >= 2
  /\ speechCalls[1].op = "start" /\ speechCalls[1].code = "RECOGNITION_ERROR"
  /\ speechCalls[1].settles = 1
  /\ speechCalls[2].op = "cancel" /\ speechCalls[2].state = "resolved"

C37_Ended ==
  { q \in 1..Len(speechCalls) :
      /\ speechCalls[q].op \in {"cancel", "destroy"}
      /\ speechCalls[q].state = "resolved" }

\* C37: once cancelListening or destroy has run, the startListening promise
\* that currentPromise held when it ran is settled, and isListening was
\* false when it returned.
C37_NonePendingAfterEnd ==
  \A q \in C37_Ended :
    /\ ~speechCalls[q].listeningAfter
    /\ speechCalls[q].held # NoPromise =>
         speechCalls[speechCalls[q].held].state # "pending"

C38_Starts == { p \in 1..Len(whisperCalls) : whisperCalls[p].op = "start" }

\* the recording thread of start call p is over and the runnable it gave to
\* the UI thread has run
C38_SessionOver(p) ==
  /\ whisperCalls[p].thread # NoThread
  /\ recordingThreads[whisperCalls[p].thread].pc = "done"
  /\ whisperUi = << >>

\* C38: every startRecording promise is settled exactly once: a call that is
\* turned away is rejected at once, once; a call that started a recording is
\* never settled twice, and is settled once its recording thread has ended
\* and the UI thread has run what the thread left it.
C38_SettledExactlyOnce ==
  \A p \in C38_Starts :
    /\ whisperCalls[p].settles <= 1
    /\ whisperCalls[p].thread = NoThread => whisperCalls[p].settles = 1
    /\ C38_SessionOver(p) => whisperCalls[p].settles = 1

\* C39: one recording session at a time uses audioRecord and
\* recordingPromise: a recording thread releases and nulls only the
\* AudioRecord made for it and takes only the promise of its own
\* startRecording call.
C39_SessionsApart ==
  /\ \A a \in 1..Len(recorders) :
        recorders[a].owner # NoThread =>
          /\ recorders[a].releasedBy \in {NoThread, recorders[a].owner}
          /\ recorders[a].nulledBy \in {NoThread, recorders[a].owner}
  /\ \A p \in C38_Starts :
        whisperCalls[p].takenBy \in {NoThread, whisperCalls[p].thread}

====
